---------------------------- MODULE Spec2Model ----------------------------
(***************************************************************************)
(* Model of two modules of the openalgo platform:                          *)
(*   broker/kotak/api/data.py          BrokerData.get_quotes / get_depth   *)
(*   services/option_greeks_service.py parse_option_symbol,                *)
(*                                     get_underlying_exchange,            *)
(*                                     calculate_time_to_expiry,           *)
(*                                     calculate_greeks, get_option_greeks *)
(*                                                                         *)
(* Every operation is synchronous and stateless, so a call is one action:  *)
(* it draws the arguments and the collaborators' behaviour, runs the whole *)
(* body and leaves the arguments in args, the value returned (or the       *)
(* exception that escaped) in ret and the collaborator calls it made, in   *)
(* order and with their outcomes, in log.  Return takes the machine back   *)
(* to idle.                                                                *)
(*                                                                         *)
(* Text that the code inspects character by character (tickers, the expiry *)
(* override, exchange codes tested with `in`, numeric text) is a sequence  *)
(* of one-character strings; Join turns it into a string for table lookup. *)
(* Python values are tagged records: [t |-> "None"], [t |-> "str", v],     *)
(* [t |-> "chars", v], [t |-> "num", num, scale] (num / 10^scale),         *)
(* [t |-> "dict", f], [t |-> "list", items].                               *)
(***************************************************************************)
EXTENDS Integers, Sequences, FiniteSets, TLC

VARIABLES pc, op, args, ret, log

vars == <<pc, op, args, ret, log>>

(***************************************************************************)
(* Bounds of the model.                                                    *)
(***************************************************************************)
\* Most price levels a vendor depth payload carries per side (the code keeps 5).
MaxLevels == 6

(***************************************************************************)
(* Python values and conversions.                                          *)
(***************************************************************************)
PyNone == [t |-> "None"]
PyStr(s) == [t |-> "str", v |-> s]
PyChars(s) == [t |-> "chars", v |-> s]
PyDict(f) == [t |-> "dict", f |-> f]
PyList(items) == [t |-> "list", items |-> items]
\* {}
EmptyDict == PyDict([k \in {} |-> PyNone])

RECURSIVE Pow10(_)
Pow10(k) == IF k = 0 THEN 1 ELSE 10 * Pow10(k - 1)

\* A number num / 10^scale in lowest decimal form, so that equal numbers are
\* equal records (Python: 0 == 0.0, 83.50 == 83.5).
RECURSIVE Num(_, _)
Num(n, k) ==
    IF k > 0 /\ n % 10 = 0 THEN Num(n \div 10, k - 1)
    ELSE [t |-> "num", num |-> n, scale |-> k]

Zero == Num(0, 0)

Ok(v) == [exc |-> "none", val |-> v]
Raise(e) == [exc |-> e]

RECURSIVE Join(_)
Join(s) == IF s = <<>> THEN "" ELSE Head(s) \o Join(Tail(s))

Digits == {"0", "1", "2", "3", "4", "5", "6", "7", "8", "9"}

DigitVal(c) ==
    CASE c = "0" -> 0 [] c = "1" -> 1 [] c = "2" -> 2 [] c = "3" -> 3
      [] c = "4" -> 4 [] c = "5" -> 5 [] c = "6" -> 6 [] c = "7" -> 7
      [] c = "8" -> 8 [] c = "9" -> 9

\* The character of a decimal digit.
DigitChar(d) == <<"0", "1", "2", "3", "4", "5", "6", "7", "8", "9">>[d + 1]

\* The value of a run of decimal digits.
RECURSIVE DigitsVal(_)
DigitsVal(s) ==
    IF s = <<>> THEN 0
    ELSE 10 * DigitsVal(SubSeq(s, 1, Len(s) - 1)) + DigitVal(s[Len(s)])

AllIn(s, S) == \A i \in 1..Len(s) : s[i] \in S

CountOf(s, c) == Cardinality({i \in 1..Len(s) : s[i] = c})

Remove(s, c) == SelectSeq(s, LAMBDA x : x # c)

\* float(text) for text over digits, "." and other characters: one optional
\* point and at least one digit, else ValueError.
FloatOfChars(s) ==
    IF /\ AllIn(s, Digits \cup {"."})
       /\ CountOf(s, ".") <= 1
       /\ Len(Remove(s, ".")) >= 1
    THEN LET dot == IF CountOf(s, ".") = 0 THEN Len(s) + 1
                    ELSE CHOOSE i \in 1..Len(s) : s[i] = "."
         IN Ok(Num(DigitsVal(Remove(s, ".")), IF dot > Len(s) THEN 0 ELSE Len(s) - dot))
    ELSE Raise("ValueError")

LowerToUpper ==
    [c \in {"a", "b", "c", "d", "e", "f", "g", "h", "i", "j", "k", "l", "m",
            "n", "o", "p", "q", "r", "s", "t", "u", "v", "w", "x", "y", "z"} |->
       CASE c = "a" -> "A" [] c = "b" -> "B" [] c = "c" -> "C" [] c = "d" -> "D"
         [] c = "e" -> "E" [] c = "f" -> "F" [] c = "g" -> "G" [] c = "h" -> "H"
         [] c = "i" -> "I" [] c = "j" -> "J" [] c = "k" -> "K" [] c = "l" -> "L"
         [] c = "m" -> "M" [] c = "n" -> "N" [] c = "o" -> "O" [] c = "p" -> "P"
         [] c = "q" -> "Q" [] c = "r" -> "R" [] c = "s" -> "S" [] c = "t" -> "T"
         [] c = "u" -> "U" [] c = "v" -> "V" [] c = "w" -> "W" [] c = "x" -> "X"
         [] c = "y" -> "Y" [] c = "z" -> "Z"]

\* str.upper()
Upper(s) == [i \in 1..Len(s) |-> IF s[i] \in DOMAIN LowerToUpper THEN LowerToUpper[s[i]] ELSE s[i]]

\* sub in s
Contains(sub, s) ==
    \E i \in 1..(Len(s) - Len(sub) + 1) : SubSeq(s, i, i + Len(sub) - 1) = sub

\* dict.get(key, default)
DictGet(d, key, default) == IF key \in DOMAIN d.f THEN d.f[key] ELSE default

\* Python truthiness of a value
Truthy(v) ==
    CASE v.t = "None" -> FALSE
      [] v.t = "str" -> v.v # ""
      [] v.t = "chars" -> v.v # <<>>
      [] v.t = "num" -> v.num # 0
      [] v.t = "dict" -> DOMAIN v.f # {}
      [] v.t = "list" -> v.items # <<>>
      [] OTHER -> TRUE

\* float(v)
PyFloat(v) ==
    CASE v.t = "num" -> Ok(v)
      [] v.t = "chars" -> FloatOfChars(v.v)
      [] OTHER -> Raise("TypeError")

\* str.strip() of blanks
RECURSIVE Strip(_)
Strip(s) ==
    IF s # <<>> /\ Head(s) = " " THEN Strip(Tail(s))
    ELSE IF s # <<>> /\ s[Len(s)] = " " THEN Strip(SubSeq(s, 1, Len(s) - 1))
    ELSE s

\* int(text): blanks around, one optional sign, then digits only; the value
\* as an integer, else ValueError.
IntOfChars(s) ==
    LET b == Strip(s)
        signed == b # <<>> /\ Head(b) \in {"+", "-"}
        d == IF signed THEN Tail(b) ELSE b
    IN IF d # <<>> /\ AllIn(d, Digits)
       THEN Ok(IF signed /\ Head(b) = "-" THEN 0 - DigitsVal(d) ELSE DigitsVal(d))
       ELSE Raise("ValueError")

\* int(v): a number is truncated, text is read by int(text)
PyInt(v) ==
    CASE v.t = "num" -> Ok(Num(v.num \div Pow10(v.scale), 0))
      [] v.t = "chars" ->
           IF IntOfChars(v.v).exc = "none" THEN Ok(Num(IntOfChars(v.v).val, 0))
           ELSE Raise("ValueError")
      [] OTHER -> Raise("TypeError")

\* str(v) inside an f-string
Fmt(v) ==
    CASE v.t = "None" -> "None"
      [] v.t = "str" -> v.v
      [] v.t = "chars" -> Join(v.v)
      [] OTHER -> "?"


(***************************************************************************)
(* broker/kotak/api/data.py                                                *)
(***************************************************************************)
\* _get_kotak_exchange: exchange_map.get(exchange)
KotakExchange(exchange) ==
    LET e == Join(exchange) IN
    CASE e = "NSE" -> PyStr("nse_cm")
      [] e = "BSE" -> PyStr("bse_cm")
      [] e = "NFO" -> PyStr("nse_fo")
      [] e = "BFO" -> PyStr("bse_fo")
      [] e = "CDS" -> PyStr("cde_fo")
      [] e = "MCX" -> PyStr("mcx_fo")
      [] e = "NSE_INDEX" -> PyStr("nse_cm")
      [] e = "BSE_INDEX" -> PyStr("bse_cm")
      [] OTHER -> PyNone

\* _get_index_symbol: index_map.get(symbol.upper(), symbol)
IndexSymbol(symbol) ==
    LET u == Join(Upper(symbol)) IN
    CASE u = "NIFTY" -> "Nifty 50"
      [] u = "NIFTY50" -> "Nifty 50"
      [] u = "BANKNIFTY" -> "Nifty Bank"
      [] u = "SENSEX" -> "SENSEX"
      [] u = "BANKEX" -> "BANKEX"
      [] u = "FINNIFTY" -> "Nifty Fin Service"
      [] u = "MIDCPNIFTY" -> "NIFTY MIDCAP 100"
      [] OTHER -> Join(symbol)

\* _get_default_quote
DefaultQuote ==
    [bid |-> Zero, ask |-> Zero, open |-> Zero, high |-> Zero, low |-> Zero,
     ltp |-> Zero, prev_close |-> Zero, volume |-> Zero, oi |-> Zero]

ZeroLevel == [price |-> Zero, quantity |-> Zero]

\* _get_default_depth
DefaultDepth ==
    [bids |-> [i \in 1..5 |-> ZeroLevel], asks |-> [i \in 1..5 |-> ZeroLevel],
     totalbuyqty |-> Zero, totalsellqty |-> Zero]

\* The first part of get_quotes and of get_depth: the vendor query, from the
\* static tables for an index and from the token database otherwise.  tok and
\* brx are what get_token and get_brexchange do when called.
\*   [exc, found, query, log]
ResolveQuery(symbol, exchange, tok, brx) ==
    IF Contains(<<"I", "N", "D", "E", "X">>, Upper(exchange))
    THEN [exc |-> "none", found |-> TRUE,
          query |-> <<Fmt(KotakExchange(exchange)), IndexSymbol(symbol)>>,
          log |-> <<>>]
    ELSE LET c1 == [call |-> "get_token", out |-> tok]
             c2 == [call |-> "get_brexchange", out |-> brx]
         IN IF tok.exc # "none"
            THEN [exc |-> tok.exc, found |-> FALSE, query |-> <<>>, log |-> <<c1>>]
            ELSE IF brx.exc # "none"
            THEN [exc |-> brx.exc, found |-> FALSE, query |-> <<>>, log |-> <<c1, c2>>]
            ELSE IF ~Truthy(tok.val) \/ ~Truthy(brx.val)
            THEN [exc |-> "none", found |-> FALSE, query |-> <<>>, log |-> <<c1, c2>>]
            ELSE [exc |-> "none", found |-> TRUE,
                  query |-> <<Fmt(brx.val), Fmt(tok.val)>>, log |-> <<c1, c2>>]

\* _make_quotes_request without the test of the status code.
MakeQuotesRequestAnyStatus(query, filter_name, http) ==
    IF http.kind = "no_client"
    THEN [val |-> PyNone, log |-> <<[call |-> "get_httpx_client", out |-> Raise("Exception")]>>]
    ELSE LET c == [call |-> "http_get", query |-> query, filter |-> filter_name, out |-> http]
         IN IF http.kind = "raise" \/ http.body.t = "invalid" THEN [val |-> PyNone, log |-> <<c>>]
            ELSE [val |-> http.body, log |-> <<c>>]

\* _make_quotes_request asking a second time after a request that failed.
MakeQuotesRequestRetry(query, filter_name, http) ==
    IF http.kind = "no_client"
    THEN [val |-> PyNone, log |-> <<[call |-> "get_httpx_client", out |-> Raise("Exception")]>>]
    ELSE LET c == [call |-> "http_get", query |-> query, filter |-> filter_name, out |-> http]
         IN IF http.kind = "raise" THEN [val |-> PyNone, log |-> <<c, c>>]
            ELSE IF http.status = 200
            THEN IF http.body.t = "invalid" THEN [val |-> PyNone, log |-> <<c>>]
                 ELSE [val |-> http.body, log |-> <<c>>]
            ELSE [val |-> PyNone, log |-> <<c, c>>]

\* _make_quotes_request: the decoded payload, or None on any failure.  http is
\* what the pooled client does: get_httpx_client raising, client.get raising,
\* or a response with a status and a body (a JSON value, or text that is not
\* JSON).
\*   [val, log]
MakeQuotesRequest(query, filter_name, http) ==
    IF http.kind = "no_client"
    THEN [val |-> PyNone, log |-> <<[call |-> "get_httpx_client", out |-> Raise("Exception")]>>]
    ELSE LET c == [call |-> "http_get", query |-> query, filter |-> filter_name, out |-> http]
         IN IF http.kind = "raise" THEN [val |-> PyNone, log |-> <<c>>]
            ELSE IF http.status = 200
            THEN IF http.body.t = "invalid" THEN [val |-> PyNone, log |-> <<c>>]
                 ELSE [val |-> http.body, log |-> <<c>>]
            ELSE [val |-> PyNone, log |-> <<c>>]

\* The first of the results that raised, or Ok(<<values>>).
RECURSIVE AllOk(_)
AllOk(rs) ==
    IF rs = <<>> THEN Ok(<<>>)
    ELSE IF Head(rs).exc # "none" THEN Head(rs)
    ELSE LET rest == AllOk(Tail(rs))
         IN IF rest.exc # "none" THEN rest ELSE Ok(<<Head(rs).val>> \o rest.val)

\* x.get(key, default) on a value that may not be a dict
AttrGet(x, key, default) ==
    IF x.t = "dict" THEN Ok(DictGet(x, key, default)) ELSE Raise("AttributeError")

\* get_quotes, lines 125-154: the record built from the payload.
QuoteFromResponse(response) ==
    IF Truthy(response) /\ response.t = "list" /\ Len(response.items) > 0
    THEN LET quote_data == response.items[1]
             ohlc_data == AttrGet(quote_data, "ohlc", EmptyDict)
         IN IF quote_data.t # "dict" THEN Raise("AttributeError")
            ELSE IF ohlc_data.val.t # "dict" THEN Raise("AttributeError")
            ELSE LET fs == AllOk(<<
                         PyFloat(DictGet(quote_data, "total_buy", Zero)),
                         PyFloat(DictGet(quote_data, "total_sell", Zero)),
                         PyFloat(DictGet(ohlc_data.val, "open", Zero)),
                         PyFloat(DictGet(ohlc_data.val, "high", Zero)),
                         PyFloat(DictGet(ohlc_data.val, "low", Zero)),
                         PyFloat(DictGet(quote_data, "ltp", Zero)),
                         PyFloat(DictGet(ohlc_data.val, "close", Zero)),
                         PyFloat(DictGet(quote_data, "last_volume", Zero)),
                         PyInt(DictGet(quote_data, "open_int", Zero))>>)
                 IN IF fs.exc # "none" THEN fs
                    ELSE Ok([bid |-> fs.val[1], ask |-> fs.val[2], open |-> fs.val[3],
                             high |-> fs.val[4], low |-> fs.val[5], ltp |-> fs.val[6],
                             prev_close |-> fs.val[7], volume |-> fs.val[8],
                             oi |-> fs.val[9]])
    ELSE Ok(DefaultQuote)

\* get_quotes(symbol, exchange): [ret, log]
get_quotes(symbol, exchange, tok, brx, http) ==
    LET q == ResolveQuery(symbol, exchange, tok, brx) IN
    IF q.exc # "none" THEN [ret |-> Ok(DefaultQuote), log |-> q.log]
    ELSE IF ~q.found THEN [ret |-> Ok(DefaultQuote), log |-> q.log]
    ELSE LET r == MakeQuotesRequest(q.query, "all", http)
             rec == QuoteFromResponse(r.val)
         IN [ret |-> IF rec.exc # "none" THEN Ok(DefaultQuote) ELSE rec,
             log |-> q.log \o r.log]

\* get_depth, lines 199-205 and 208-214: the first five levels of one side,
\* converted; nothing when the side's data is not a list.
RECURSIVE ConvertLevels(_)
ConvertLevels(levels) ==
    IF levels = <<>> THEN Ok(<<>>)
    ELSE LET lv == Head(levels)
             price == PyFloat(DictGet(lv, "price", Zero))
             quantity == PyInt(DictGet(lv, "quantity", Zero))
         IN IF lv.t # "dict" THEN Raise("AttributeError")
            ELSE IF price.exc # "none" THEN price
            ELSE IF quantity.exc # "none" THEN quantity
            ELSE LET rest == ConvertLevels(Tail(levels))
                 IN IF rest.exc # "none" THEN rest
                    ELSE Ok(<<[price |-> price.val, quantity |-> quantity.val]>> \o rest.val)

\* seq[:n] with the slice forgotten.
TakeAll(seq, n) == seq

\* seq[:n]
Take(seq, n) == SubSeq(seq, 1, IF Len(seq) < n THEN Len(seq) ELSE n)

SideLevels(side_data) ==
    IF side_data.t = "list" THEN ConvertLevels(Take(side_data.items, 5)) ELSE Ok(<<>>)

\* get_depth, lines 217-220: while len(levels) < 5: append a zero level
PadLevels(levels) ==
    IF Len(levels) < 5 THEN levels \o [i \in 1..(5 - Len(levels)) |-> ZeroLevel]
    ELSE levels

RECURSIVE SumQuantity(_)
SumQuantity(levels) ==
    IF levels = <<>> THEN 0
    ELSE Head(levels).quantity.num + SumQuantity(Tail(levels))

\* get_depth, lines 190-230: the record built from the payload.
DepthFromResponse(response) ==
    IF Truthy(response) /\ response.t = "list" /\ Len(response.items) > 0
    THEN LET target_quote == response.items[1]
             depth_data == AttrGet(target_quote, "depth", EmptyDict)
         IN IF depth_data.exc # "none" THEN depth_data
            ELSE LET buy_data == AttrGet(depth_data.val, "buy", PyList(<<>>))
                     sell_data == AttrGet(depth_data.val, "sell", PyList(<<>>))
                 IN IF buy_data.exc # "none" THEN buy_data
                    ELSE LET bids == SideLevels(buy_data.val) IN
                         IF bids.exc # "none" THEN bids
                         ELSE LET asks == SideLevels(sell_data.val) IN
                              IF asks.exc # "none" THEN asks
                              ELSE Ok([bids |-> PadLevels(bids.val),
                                       asks |-> PadLevels(asks.val),
                                       totalbuyqty |-> Num(SumQuantity(PadLevels(bids.val)), 0),
                                       totalsellqty |-> Num(SumQuantity(PadLevels(asks.val)), 0)])
    ELSE Ok(DefaultDepth)

\* get_depth(symbol, exchange): [ret, log]
get_depth(symbol, exchange, tok, brx, http) ==
    LET q == ResolveQuery(symbol, exchange, tok, brx) IN
    IF q.exc # "none" THEN [ret |-> Ok(DefaultDepth), log |-> q.log]
    ELSE IF ~q.found THEN [ret |-> Ok(DefaultDepth), log |-> q.log]
    ELSE LET r == MakeQuotesRequest(q.query, "depth", http)
             rec == DepthFromResponse(r.val)
         IN [ret |-> IF rec.exc # "none" THEN Ok(DefaultDepth) ELSE rec,
             log |-> q.log \o r.log]

(***************************************************************************)
(* Inputs of the adapter and behaviours of its collaborators.              *)
(***************************************************************************)
AdapterSymbols ==
    {<<"I", "N", "F", "Y">>, <<"N", "I", "F", "T", "Y">>,
     <<"n", "i", "f", "t", "y">>, <<"V", "I", "X">>}

AdapterExchanges ==
    {<<"N", "S", "E">>, <<"N", "F", "O">>,
     <<"N", "S", "E", "_", "I", "N", "D", "E", "X">>,
     <<"B", "S", "E", "_", "I", "N", "D", "E", "X">>,
     <<"n", "s", "e", "_", "i", "n", "d", "e", "x">>,
     <<"M", "C", "X", "_", "I", "N", "D", "E", "X">>}

TokenOutcomes == {Raise("Exception"), Ok(PyNone), Ok(PyStr("")), Ok(PyStr("11536"))}

BrexchangeOutcomes == {Raise("Exception"), Ok(PyNone), Ok(PyStr("nse_cm"))}

Txt(s) == PyChars(s)

\* First elements of a quotes payload.
QuoteItems ==
    {PyDict([display_symbol |-> PyStr("INFY-EQ"),
             total_buy |-> Txt(<<"1", "2", "0">>), total_sell |-> Txt(<<"8", "0">>),
             ohlc |-> PyDict([open |-> Txt(<<"1", "5", ".", "5", "0">>),
                              high |-> Txt(<<"1", "6">>), low |-> Txt(<<"1", "4", ".", "2">>),
                              close |-> Txt(<<"1", "5">>)]),
             ltp |-> Txt(<<"1", "5", ".", "7", "5">>),
             last_volume |-> Txt(<<"9">>), open_int |-> Txt(<<"3", "0">>)]),
     PyDict([ltp |-> Num(1575, 2), open_int |-> Num(75, 1)]),
     EmptyDict,
     PyDict([ltp |-> Txt(<<"N", "/", "A">>)]),
     PyDict([ltp |-> Txt(<<"1", "5">>), ohlc |-> PyNone]),
     PyDict([ltp |-> Txt(<<"1", "5">>), open_int |-> Txt(<<"3", ".", "0">>)]),
     PyDict([ltp |-> PyNone]),
     PyStr("INFY")}

\* Payloads that carry no first element.
EmptyBodies ==
    {[t |-> "invalid"], PyNone, PyList(<<>>), EmptyDict,
     PyDict([fault |-> PyStr("invalid token")]), PyStr("error")}

HttpFailures ==
    {[kind |-> "no_client"], [kind |-> "raise", exc |-> "HTTPError"],
     [kind |-> "raise", exc |-> "Exception"]}

Response(status, body) == [kind |-> "response", status |-> status, body |-> body]

HttpStatuses == {200, 404, 500}

QuoteHttp ==
    HttpFailures \cup
    {Response(st, b) : st \in HttpStatuses,
                       b \in EmptyBodies \cup {PyList(<<it>>) : it \in QuoteItems}}

\* The vendor's i-th level, in one of the shapes the API sends: numbers as text,
\* numbers as JSON numbers (a fractional quantity included), or fields left out.
Level(i, shape) ==
    CASE shape = "text" ->
           PyDict([price |-> Txt(<<"1", "0", DigitChar(i), ".", "5">>),
                   quantity |-> Txt(<<DigitChar(i), "0">>)])
      [] shape = "number" ->
           PyDict([price |-> Num(1000 + i, 1), quantity |-> Num(10 * i + 5, 1)])
      [] shape = "sparse" ->
           IF i % 2 = 1 THEN PyDict([price |-> Num(100 + i, 0)])
           ELSE PyDict([quantity |-> Num(i, 0)])

LevelShapes == {"text", "number", "sparse"}

\* A level the conversion cannot read.
BrokenLevels ==
    {PyNone,
     PyDict([price |-> Txt(<<"1", "0", "0">>), quantity |-> Txt(<<"2", ".", "5">>)])}

\* What the vendor sends for one side of the book.
SideData ==
    {PyList([i \in 1..n |-> Level(i, sh)]) : n \in 0..MaxLevels, sh \in LevelShapes}
    \cup {PyList([i \in 1..n |-> IF i = k THEN b ELSE Level(i, "text")]) :
            n \in 1..MaxLevels, k \in 1..MaxLevels, b \in BrokenLevels}
    \cup {PyDict([price |-> Num(100, 0), quantity |-> Num(5, 0)]), PyNone}

DepthDicts ==
    {PyDict([buy |-> b, sell |-> a]) : b \in SideData, a \in SideData}
    \cup {PyDict([buy |-> b]) : b \in SideData}
    \cup {PyDict([sell |-> a]) : a \in SideData}
    \cup {EmptyDict}

DepthItems ==
    {PyDict([depth |-> d]) : d \in DepthDicts}
    \cup {PyDict([depth |-> PyNone]), EmptyDict, PyStr("INFY")}

DepthHttp ==
    HttpFailures
    \cup {Response(st, b) : st \in HttpStatuses, b \in EmptyBodies}
    \cup {Response(st, PyList(<<PyDict([depth |-> PyDict([buy |-> PyList(<<Level(1, "text")>>)])])>>)) :
            st \in HttpStatuses}
    \cup {Response(200, PyList(<<it>>)) : it \in DepthItems}

DepthSymbols == {<<"I", "N", "F", "Y">>, <<"N", "I", "F", "T", "Y">>}

DepthExchanges == {<<"N", "S", "E">>, <<"N", "S", "E", "_", "I", "N", "D", "E", "X">>}

(***************************************************************************)
(* services/option_greeks_service.py                                       *)
(***************************************************************************)
NSE_INDEX_SYMBOLS ==
    {"NIFTY", "BANKNIFTY", "FINNIFTY", "MIDCPNIFTY",
     "NIFTYNXT50", "NIFTYIT", "NIFTYPHARMA", "NIFTYBANK"}

BSE_INDEX_SYMBOLS == {"SENSEX", "BANKEX", "SENSEX50"}

CURRENCY_SYMBOLS == {"USDINR", "EURINR", "GBPINR", "JPYINR"}

COMMODITY_SYMBOLS ==
    {"GOLD", "GOLDM", "GOLDPETAL", "SILVER", "SILVERM", "SILVERMIC",
     "CRUDEOIL", "CRUDEOILM", "NATURALGAS", "COPPER", "ZINC", "LEAD",
     "ALUMINIUM", "NICKEL", "COTTONCANDY", "MENTHAOIL"}

\* DEFAULT_INTEREST_RATES.get(exchange, 0)
DefaultInterestRate(exchange) ==
    CASE exchange = "NFO" -> 0
      [] exchange = "BFO" -> 0
      [] exchange = "CDS" -> 0
      [] exchange = "MCX" -> 0
      [] OTHER -> 0

RaiseWhy(e, why) == [exc |-> e, why |-> why]

UpperLetters ==
    {"A", "B", "C", "D", "E", "F", "G", "H", "I", "J", "K", "L", "M",
     "N", "O", "P", "Q", "R", "S", "T", "U", "V", "W", "X", "Y", "Z"}

\* The length of the longest prefix of s made of characters of S.
RECURSIVE RunLength(_, _)
RunLength(s, S) ==
    IF s # <<>> /\ Head(s) \in S THEN 1 + RunLength(Tail(s), S) ELSE 0

\* s[i:j] in Python's 0-based, end-exclusive terms, for i <= j.
Slice(s, i, j) == SubSeq(s, i + 1, IF j < Len(s) THEN j ELSE Len(s))

\* re.match(r"([A-Z]+)(\d{2})([A-Z]{3})(\d{2})([\d.]+)(CE|PE)", s): a match
\* from the start of s, with nothing required after it.  [A-Z]+ and [\d.]+
\* are greedy and are followed by a character outside their class, so giving
\* characters back never helps: each takes its longest run.
\*   [matched, groups]
RegexMatch(s) ==
    LET n1 == RunLength(s, UpperLetters)
        day == Slice(s, n1, n1 + 2)
        month_str == Slice(s, n1 + 2, n1 + 5)
        year == Slice(s, n1 + 5, n1 + 7)
        n5 == RunLength(Slice(s, n1 + 7, Len(s)), Digits \cup {"."})
        strike_str == Slice(s, n1 + 7, n1 + 7 + n5)
        opt_type == Slice(s, n1 + 7 + n5, n1 + 9 + n5)
    IN IF /\ n1 >= 1
          /\ Len(day) = 2 /\ AllIn(day, Digits)
          /\ Len(month_str) = 3 /\ AllIn(month_str, UpperLetters)
          /\ Len(year) = 2 /\ AllIn(year, Digits)
          /\ n5 >= 1
          /\ opt_type \in {<<"C", "E">>, <<"P", "E">>}
       THEN [matched |-> TRUE,
             groups |-> [base_symbol |-> Slice(s, 0, n1), day |-> day,
                         month_str |-> month_str, year |-> year,
                         strike_str |-> strike_str, opt_type |-> opt_type]]
       ELSE [matched |-> FALSE]

\* month_map[month_str]
MonthMap(month_str) ==
    LET m == Join(month_str) IN
    CASE m = "JAN" -> Ok(1) [] m = "FEB" -> Ok(2) [] m = "MAR" -> Ok(3)
      [] m = "APR" -> Ok(4) [] m = "MAY" -> Ok(5) [] m = "JUN" -> Ok(6)
      [] m = "JUL" -> Ok(7) [] m = "AUG" -> Ok(8) [] m = "SEP" -> Ok(9)
      [] m = "OCT" -> Ok(10) [] m = "NOV" -> Ok(11) [] m = "DEC" -> Ok(12)
      [] OTHER -> Raise("KeyError")

\* str.split(sep)
RECURSIVE Split(_, _)
Split(s, sep) ==
    LET n == RunLength(s, {c \in {s[i] : i \in 1..Len(s)} : c # sep})
    IN IF n = Len(s) THEN <<s>>
       ELSE <<SubSeq(s, 1, n)>> \o Split(SubSeq(s, n + 2, Len(s)), sep)

IsLeap(year) == (year % 4 = 0 /\ year % 100 # 0) \/ year % 400 = 0

DaysInMonth(year, month) ==
    IF month = 2 THEN (IF IsLeap(year) THEN 29 ELSE 28)
    ELSE IF month \in {4, 6, 9, 11} THEN 30 ELSE 31

\* A datetime that takes every day up to 31 in every month.
MakeDatetimeAnyDay(year, month, day, hour, minute) ==
    IF /\ year \in 1..9999
       /\ month \in 1..12
       /\ day \in 1..31
       /\ hour \in 0..23
       /\ minute \in 0..59
    THEN Ok([year |-> year, month |-> month, day |-> day,
             hour |-> hour, minute |-> minute])
    ELSE Raise("ValueError")

\* datetime(year, month, day, hour, minute)
MakeDatetime(year, month, day, hour, minute) ==
    IF /\ year \in 1..9999
       /\ month \in 1..12
       /\ day \in 1..DaysInMonth(year, month)
       /\ hour \in 0..23
       /\ minute \in 0..59
    THEN Ok([year |-> year, month |-> month, day |-> day,
             hour |-> hour, minute |-> minute])
    ELSE Raise("ValueError")

\* The hour and minute of the expiry without the branch of lines 121-123: CDS
\* gets the default of the other exchanges.
ExpiryTimeNoCds(exchange, custom_expiry_time) ==
    IF Truthy(custom_expiry_time)
    THEN LET time_parts == Split(custom_expiry_time.v, ":")
             expiry_hour == IntOfChars(time_parts[1])
             expiry_minute == IntOfChars(time_parts[2])
         IN IF Len(time_parts) # 2 THEN RaiseWhy("ValueError", "expiry_time")
            ELSE IF expiry_hour.exc # "none" \/ expiry_minute.exc # "none"
            THEN RaiseWhy("ValueError", "expiry_time")
            ELSE IF ~(0 <= expiry_hour.val /\ expiry_hour.val <= 23)
                    \/ ~(0 <= expiry_minute.val /\ expiry_minute.val <= 59)
            THEN RaiseWhy("ValueError", "expiry_time")
            ELSE Ok([hour |-> expiry_hour.val, minute |-> expiry_minute.val])
    ELSE IF exchange = "MCX" THEN Ok([hour |-> 23, minute |-> 30])
    ELSE Ok([hour |-> 15, minute |-> 30])

\* parse_option_symbol, lines 100-126: the hour and minute of the expiry.
ExpiryTime(exchange, custom_expiry_time) ==
    IF Truthy(custom_expiry_time)
    THEN LET time_parts == Split(custom_expiry_time.v, ":")
             expiry_hour == IntOfChars(time_parts[1])
             expiry_minute == IntOfChars(time_parts[2])
         IN IF Len(time_parts) # 2 THEN RaiseWhy("ValueError", "expiry_time")
            ELSE IF expiry_hour.exc # "none" \/ expiry_minute.exc # "none"
            THEN RaiseWhy("ValueError", "expiry_time")
            ELSE IF ~(0 <= expiry_hour.val /\ expiry_hour.val <= 23)
                    \/ ~(0 <= expiry_minute.val /\ expiry_minute.val <= 59)
            THEN RaiseWhy("ValueError", "expiry_time")
            ELSE Ok([hour |-> expiry_hour.val, minute |-> expiry_minute.val])
    ELSE IF exchange = "MCX" THEN Ok([hour |-> 23, minute |-> 30])
    ELSE IF exchange = "CDS" THEN Ok([hour |-> 12, minute |-> 30])
    ELSE Ok([hour |-> 15, minute |-> 30])

\* parse_option_symbol(symbol, exchange, custom_expiry_time): the tuple
\* (base_symbol, expiry, strike, opt_type), or ValueError; why tells which
\* statement raised.
parse_option_symbol(symbol, exchange, custom_expiry_time) ==
    LET match == RegexMatch(Upper(symbol)) IN
    IF ~match.matched THEN RaiseWhy("ValueError", "format")
    ELSE LET g == match.groups
             time == ExpiryTime(exchange, custom_expiry_time)
             month == MonthMap(g.month_str)
         IN IF time.exc # "none" THEN time
            ELSE IF month.exc # "none" THEN RaiseWhy("ValueError", "month")
            ELSE LET expiry == MakeDatetime(DigitsVal(<<"2", "0">> \o g.year), month.val,
                                            DigitsVal(g.day), time.val.hour, time.val.minute)
                     strike == FloatOfChars(g.strike_str)
                 IN IF expiry.exc # "none" THEN RaiseWhy("ValueError", "date")
                    ELSE IF strike.exc # "none" THEN RaiseWhy("ValueError", "strike")
                    ELSE Ok([base_symbol |-> g.base_symbol, expiry |-> expiry.val,
                             strike |-> strike.val, opt_type |-> g.opt_type])

\* The classification by the symbol sets alone.
get_underlying_exchange_by_symbol(base_symbol, options_exchange) ==
    IF base_symbol \in NSE_INDEX_SYMBOLS THEN "NSE_INDEX"
    ELSE IF base_symbol \in BSE_INDEX_SYMBOLS THEN "BSE_INDEX"
    ELSE IF base_symbol \in CURRENCY_SYMBOLS THEN "CDS"
    ELSE IF base_symbol \in COMMODITY_SYMBOLS THEN "MCX"
    ELSE "NSE"

\* get_underlying_exchange(base_symbol, options_exchange)
get_underlying_exchange(base_symbol, options_exchange) ==
    IF base_symbol \in NSE_INDEX_SYMBOLS THEN "NSE_INDEX"
    ELSE IF base_symbol \in BSE_INDEX_SYMBOLS THEN "BSE_INDEX"
    ELSE IF base_symbol \in CURRENCY_SYMBOLS \/ options_exchange = "CDS" THEN "CDS"
    ELSE IF base_symbol \in COMMODITY_SYMBOLS \/ options_exchange = "MCX" THEN "MCX"
    ELSE "NSE"

\* 60 * 60 * 24, the seconds of a day (line 194)
SecondsPerDay == 86400

\* 0.01 days, the least time to expiry, in seconds (lines 197-198)
MinExpirySeconds == 864

RECURSIVE DaysBeforeYear(_)
DaysBeforeYear(year) ==
    IF year <= 2000 THEN 0
    ELSE DaysBeforeYear(year - 1) + (IF IsLeap(year - 1) THEN 366 ELSE 365)

RECURSIVE DaysBeforeMonth(_, _)
DaysBeforeMonth(year, month) ==
    IF month <= 1 THEN 0
    ELSE DaysBeforeMonth(year, month - 1) + DaysInMonth(year, month - 1)

\* A datetime as the seconds since 2000-01-01 00:00, which is how they are
\* compared and subtracted.
Timestamp(dt) ==
    ((((DaysBeforeYear(dt.year) + DaysBeforeMonth(dt.year, dt.month) + dt.day - 1) * 24
        + dt.hour) * 60) + dt.minute) * 60

\* calculate_time_to_expiry without the test of lines 188-190: a past expiry
\* is floored like a near one.
calculate_time_to_expiry_floored(expiry, current_time) ==
    LET time_delta == Timestamp(expiry) - current_time
    IN IF time_delta < MinExpirySeconds THEN MinExpirySeconds ELSE time_delta

\* calculate_time_to_expiry without the floor of lines 197-199.
calculate_time_to_expiry_unfloored(expiry, current_time) ==
    IF Timestamp(expiry) < current_time THEN 0
    ELSE Timestamp(expiry) - current_time

\* calculate_time_to_expiry(expiry), with current_time what datetime.now()
\* returns (in seconds).  The result is in days, kept as the number of
\* seconds: days_to_expiry = result / SecondsPerDay.
calculate_time_to_expiry(expiry, current_time) ==
    IF Timestamp(expiry) < current_time THEN 0
    ELSE LET time_delta == Timestamp(expiry) - current_time
         IN IF time_delta < MinExpirySeconds THEN MinExpirySeconds ELSE time_delta

\* check_mibian_availability
check_mibian_availability(MIBIAN_AVAILABLE) ==
    IF ~MIBIAN_AVAILABLE
    THEN [available |-> FALSE,
          error_response |-> [status |-> "error", message |-> "requires mibian library"],
          status_code |-> 500]
    ELSE [available |-> TRUE]

\* A (success, response, status_code) tuple.
Result(success, response, status_code) ==
    Ok([success |-> success, response |-> response, status_code |-> status_code])

Failure(message, status_code) ==
    Result(FALSE, [status |-> "error", message |-> message], status_code)

\* x <= 0 for a price
NotPositive(x) == IF x.t = "num" THEN Ok(x.num <= 0) ELSE Raise("TypeError")

\* calculate_greeks, lines 269-342: the two constructions of mibian.BS and
\* the response.  The response keeps the fields that are copied; its numeric
\* fields (rounded copies of the arguments and of the library's results) are
\* left out.
GreeksPriced(option_symbol, exchange, option_price, p, bs, env, l3) ==
    LET given == IF p.opt_type = <<"C", "E">> THEN "callPrice" ELSE "putPrice"
        c1 == [call |-> "mibian.BS", args |-> bs, given |-> given,
               price |-> option_price, out |-> env.iv]
    IN IF env.iv.exc # "none"
       THEN [res |-> Failure("Failed to calculate Implied Volatility", 500),
             log |-> l3 \o <<c1>>]
       ELSE LET c2 == [call |-> "mibian.BS", args |-> bs, given |-> "volatility",
                       volatility |-> env.iv.val, out |-> env.greeks]
            IN IF env.greeks.exc # "none"
               THEN [res |-> Failure("Failed to calculate Greeks", 500),
                     log |-> l3 \o <<c1, c2>>]
               ELSE [res |-> Result(TRUE,
                                    [status |-> "success",
                                     symbol |-> option_symbol,
                                     exchange |-> exchange,
                                     underlying |-> p.base_symbol,
                                     option_type |-> p.opt_type,
                                     expiry_date |-> [day |-> p.expiry.day,
                                                      month |-> p.expiry.month,
                                                      year |-> p.expiry.year]],
                                    200),
                     log |-> l3 \o <<c1, c2>>]

\* The tests of lines 242-261 without the test of the strike (lines 263-267).
GreeksValidatedNoStrikeTest(option_symbol, exchange, spot_price, option_price, interest_rate, p, time_to_expiry, env, l3) ==
    LET rate == IF interest_rate.t = "None"
                THEN Num(DefaultInterestRate(exchange), 0) ELSE interest_rate
        bad_spot == NotPositive(spot_price)
        bad_option == NotPositive(option_price)
    IN IF time_to_expiry <= 0
       THEN [res |-> Failure("Option has expired", 400), log |-> l3]
       ELSE IF rate.t # "num" THEN [res |-> Raise("TypeError"), log |-> l3]
       ELSE IF bad_spot.exc # "none" THEN [res |-> bad_spot, log |-> l3]
       ELSE IF bad_spot.val
       THEN [res |-> Failure("Spot price and option price must be positive", 400),
             log |-> l3]
       ELSE IF bad_option.exc # "none" THEN [res |-> bad_option, log |-> l3]
       ELSE IF bad_option.val
       THEN [res |-> Failure("Spot price and option price must be positive", 400),
             log |-> l3]
       ELSE GreeksPriced(option_symbol, exchange, option_price, p,
                         [spot |-> spot_price, strike |-> p.strike,
                          rate |-> Num(rate.num, rate.scale + 2),
                          days |-> time_to_expiry],
                         env, l3)

\* calculate_greeks, lines 242-267: the expired test, the interest rate and
\* the tests of the prices and of the strike, given the parsed tuple p and
\* the time to expiry.
GreeksValidated(option_symbol, exchange, spot_price, option_price, interest_rate, p, time_to_expiry, env, l3) ==
    LET rate == IF interest_rate.t = "None"
                THEN Num(DefaultInterestRate(exchange), 0) ELSE interest_rate
        bad_spot == NotPositive(spot_price)
        bad_option == NotPositive(option_price)
    IN IF time_to_expiry <= 0
       THEN [res |-> Failure("Option has expired", 400), log |-> l3]
       ELSE IF rate.t # "num" THEN [res |-> Raise("TypeError"), log |-> l3]
       ELSE IF bad_spot.exc # "none" THEN [res |-> bad_spot, log |-> l3]
       ELSE IF bad_spot.val
       THEN [res |-> Failure("Spot price and option price must be positive", 400),
             log |-> l3]
       ELSE IF bad_option.exc # "none" THEN [res |-> bad_option, log |-> l3]
       ELSE IF bad_option.val
       THEN [res |-> Failure("Spot price and option price must be positive", 400),
             log |-> l3]
       ELSE IF p.strike.num <= 0
       THEN [res |-> Failure("Strike price must be positive", 400), log |-> l3]
       ELSE GreeksPriced(option_symbol, exchange, option_price, p,
                         [spot |-> spot_price, strike |-> p.strike,
                          rate |-> Num(rate.num, rate.scale + 2),
                          days |-> time_to_expiry],
                         env, l3)

\* calculate_greeks, lines 237-240: after parse_option_symbol returned or
\* raised (parsed), the time to expiry.
GreeksParsed(option_symbol, exchange, spot_price, option_price, interest_rate, parsed, env, l1) ==
    IF parsed.exc # "none"
    THEN [res |-> parsed, log |-> l1 \o <<[call |-> "parse_option_symbol", out |-> parsed]>>]
    ELSE LET time_to_expiry == calculate_time_to_expiry(parsed.val.expiry, env.now)
         IN GreeksValidated(option_symbol, exchange, spot_price, option_price,
                            interest_rate, parsed.val, time_to_expiry, env,
                            l1 \o <<[call |-> "parse_option_symbol", out |-> parsed],
                                    [call |-> "calculate_time_to_expiry", now |-> env.now,
                                     out |-> time_to_expiry]>>)

\* The body of the try statement with the first two stages exchanged: the
\* ticker is parsed before the availability of mibian is looked at.
GreeksTryParseFirst(option_symbol, exchange, spot_price, option_price, interest_rate, expiry_time, env) ==
    LET avail == check_mibian_availability(env.available)
        l1 == <<[call |-> "check_mibian_availability", out |-> avail.available]>>
    IN IF parse_option_symbol(option_symbol, exchange, expiry_time).exc # "none"
       THEN GreeksParsed(option_symbol, exchange, spot_price, option_price, interest_rate,
                         parse_option_symbol(option_symbol, exchange, expiry_time), env, <<>>)
       ELSE IF ~avail.available
       THEN [res |-> Result(FALSE, avail.error_response, avail.status_code), log |-> l1]
       ELSE GreeksParsed(option_symbol, exchange, spot_price, option_price, interest_rate,
                         parse_option_symbol(option_symbol, exchange, expiry_time), env, l1)

\* calculate_greeks, lines 231-342: the body of the try statement.  env is
\* what the surroundings do: MIBIAN_AVAILABLE, datetime.now(), and the two
\* mibian.BS constructions (iv, greeks).
\*   [res, log]: res is the tuple returned, or the exception raised
GreeksTry(option_symbol, exchange, spot_price, option_price, interest_rate, expiry_time, env) ==
    LET avail == check_mibian_availability(env.available)
        l1 == <<[call |-> "check_mibian_availability", out |-> avail.available]>>
    IN IF ~avail.available
       THEN [res |-> Result(FALSE, avail.error_response, avail.status_code), log |-> l1]
       ELSE GreeksParsed(option_symbol, exchange, spot_price, option_price, interest_rate,
                         parse_option_symbol(option_symbol, exchange, expiry_time), env, l1)

\* The try statement with the handler of ValueError alone: any other
\* exception goes on to the caller.
GreeksExceptValueErrorOnly(t) ==
    IF t.res.exc = "ValueError"
    THEN [ret |-> Failure("Failed to parse option symbol", 400), log |-> t.log]
    ELSE [ret |-> t.res, log |-> t.log]

\* calculate_greeks, lines 344-356: the two handlers of the try statement, on
\* what its body t did.
GreeksExcept(t) ==
    IF t.res.exc = "none" THEN [ret |-> t.res, log |-> t.log]
    ELSE IF t.res.exc = "ValueError"
    THEN [ret |-> Failure("Failed to parse option symbol", 400), log |-> t.log]
    ELSE [ret |-> Failure("Failed to calculate option Greeks", 500), log |-> t.log]

\* calculate_greeks: the try statement with its two handlers (lines 344-356).
\*   [ret, log]
calculate_greeks(option_symbol, exchange, spot_price, option_price, interest_rate, expiry_time, env) ==
    GreeksExcept(GreeksTry(option_symbol, exchange, spot_price, option_price,
                           interest_rate, expiry_time, env))

\* x.get(key, default) on a response that may not be a dict
RespGet(x, key, default) == AttrGet(x, key, default)


\* The price in a fetched quote when a missing ltp reads as zero and the test
\* of lines 418 and 435 is left out.
PriceOfZeroDefault(fetched, what) ==
    IF fetched.exc # "none" THEN [price |-> FALSE, res |-> fetched]
    ELSE IF ~fetched.val.success
    THEN LET message == RespGet(fetched.val.response, "message", PyStr("Unknown error"))
         IN IF message.exc # "none" THEN [price |-> FALSE, res |-> message]
            ELSE [price |-> FALSE,
                  res |-> Failure("Failed to fetch " \o what \o " price",
                                  fetched.val.status_code)]
    ELSE LET data == RespGet(fetched.val.response, "data", EmptyDict)
         IN IF data.exc # "none" THEN [price |-> FALSE, res |-> data]
            ELSE LET ltp == RespGet(data.val, "ltp", Zero)
                 IN IF ltp.exc # "none" THEN [price |-> FALSE, res |-> ltp]
                    ELSE [price |-> TRUE, val |-> ltp.val]

\* The price in a fetched quote, lines 411-422 and 428-439: fetched is what
\* get_quotes did, what names the quote in the messages.
\*   Ok(price), or the failure tuple to return, or the exception raised
PriceOf(fetched, what) ==
    IF fetched.exc # "none" THEN [price |-> FALSE, res |-> fetched]
    ELSE IF ~fetched.val.success
    THEN LET message == RespGet(fetched.val.response, "message", PyStr("Unknown error"))
         IN IF message.exc # "none" THEN [price |-> FALSE, res |-> message]
            ELSE [price |-> FALSE,
                  res |-> Failure("Failed to fetch " \o what \o " price",
                                  fetched.val.status_code)]
    ELSE LET data == RespGet(fetched.val.response, "data", EmptyDict)
         IN IF data.exc # "none" THEN [price |-> FALSE, res |-> data]
            ELSE LET ltp == RespGet(data.val, "ltp", PyNone)
                 IN IF ltp.exc # "none" THEN [price |-> FALSE, res |-> ltp]
                    ELSE IF ~Truthy(ltp.val)
                    THEN [price |-> FALSE,
                          res |-> Failure(IF what = "underlying"
                                          THEN "Underlying LTP not available"
                                          ELSE "Option LTP not available", 404)]
                    ELSE [price |-> TRUE, val |-> ltp.val]

\* get_option_greeks, lines 441-450: what calculate_greeks returned (c) is
\* returned.
OptionGreeksCalculated(c, l3) == [res |-> c.ret, log |-> l3 \o c.log]

\* get_option_greeks, lines 424-450: the option's quote and the calculation,
\* given the spot price.
OptionGreeksPriced(option_symbol, exchange, interest_rate, expiry_time, spot_price, env, l2) ==
    LET c3 == [call |-> "get_quotes", symbol |-> Join(option_symbol),
               exchange |-> exchange, out |-> env.option]
        option == PriceOf(env.option, "option")
    IN IF ~option.price THEN [res |-> option.res, log |-> l2 \o <<c3>>]
       ELSE OptionGreeksCalculated(calculate_greeks(option_symbol, exchange, spot_price,
                                                    option.val, interest_rate,
                                                    expiry_time, env),
                                   l2 \o <<c3, [call |-> "calculate_greeks",
                                                spot_price |-> spot_price,
                                                option_price |-> option.val]>>)

\* The underlying's quote fetched under the parsed symbol and the derived
\* exchange whatever the caller asked for.
OptionGreeksParsedNoOverride(option_symbol, exchange, interest_rate, underlying_symbol, underlying_exchange, expiry_time, p, env, l1) ==
    LET base_symbol == Join(p.base_symbol)
        l2 == l1 \o <<[call |-> "get_quotes", symbol |-> base_symbol,
                       exchange |-> get_underlying_exchange(base_symbol, exchange),
                       out |-> env.spot]>>
        spot == PriceOf(env.spot, "underlying")
    IN IF ~spot.price THEN [res |-> spot.res, log |-> l2]
       ELSE OptionGreeksPriced(option_symbol, exchange, interest_rate, expiry_time,
                               spot.val, env, l2)

\* get_option_greeks, lines 390-422: the underlying's symbol and exchange and
\* its quote, given the parsed tuple p.
OptionGreeksParsed(option_symbol, exchange, interest_rate, underlying_symbol, underlying_exchange, expiry_time, p, env, l1) ==
    LET base_symbol == Join(p.base_symbol)
        spot_symbol == IF Truthy(underlying_symbol) THEN underlying_symbol.v
                       ELSE base_symbol
        spot_exchange == IF Truthy(underlying_exchange) THEN underlying_exchange.v
                         ELSE get_underlying_exchange(base_symbol, exchange)
        l2 == l1 \o <<[call |-> "get_quotes", symbol |-> spot_symbol,
                       exchange |-> spot_exchange, out |-> env.spot]>>
        spot == PriceOf(env.spot, "underlying")
    IN IF ~spot.price THEN [res |-> spot.res, log |-> l2]
       ELSE OptionGreeksPriced(option_symbol, exchange, interest_rate, expiry_time,
                               spot.val, env, l2)

\* After parse_option_symbol returned or raised (parsed).
OptionGreeksAfterParse(option_symbol, exchange, interest_rate, underlying_symbol, underlying_exchange, expiry_time, parsed, env) ==
    IF parsed.exc # "none"
    THEN [res |-> parsed, log |-> <<[call |-> "parse_option_symbol", out |-> parsed]>>]
    ELSE OptionGreeksParsed(option_symbol, exchange, interest_rate, underlying_symbol,
                            underlying_exchange, expiry_time, parsed.val, env,
                            <<[call |-> "parse_option_symbol", out |-> parsed]>>)

\* get_option_greeks, lines 384-450: the body of the try statement.  env adds
\* to calculate_greeks' surroundings the import of the quote service
\* (import_ok) and what its get_quotes does for the underlying (spot) and for
\* the option (option): raise, or return (success, response, status_code).
\*   [res, log]
OptionGreeksTry(option_symbol, exchange, interest_rate, underlying_symbol, underlying_exchange, expiry_time, env) ==
    IF ~env.import_ok THEN [res |-> Raise("ImportError"), log |-> <<>>]
    ELSE OptionGreeksAfterParse(option_symbol, exchange, interest_rate, underlying_symbol,
                                underlying_exchange, expiry_time,
                                parse_option_symbol(option_symbol, exchange, expiry_time), env)

\* get_option_greeks, lines 452-457: the handler of the try statement, on what
\* its body t did.
OptionGreeksExcept(t) ==
    IF t.res.exc = "none" THEN [ret |-> t.res, log |-> t.log]
    ELSE [ret |-> Failure("Failed to get option Greeks", 500), log |-> t.log]

\* get_option_greeks: the try statement with its handler (lines 452-457).
\*   [ret, log]
get_option_greeks(option_symbol, exchange, interest_rate, underlying_symbol, underlying_exchange, expiry_time, env) ==
    OptionGreeksExcept(OptionGreeksTry(option_symbol, exchange, interest_rate,
                                       underlying_symbol, underlying_exchange,
                                       expiry_time, env))

(***************************************************************************)
(* Inputs of the parser and of the classifier.                             *)
(***************************************************************************)
\* Largest day number written into a ticker (one past the longest month).
MaxDay == 32

\* Largest hour and minute written into an expiry override (past 23 and 59).
MaxHourInput == 25

MaxMinuteInput == 61

\* n as two decimal digits
Dec2(n) == <<DigitChar(n \div 10), DigitChar(n % 10)>>

\* n as decimal text without padding, n < 100
Dec(n) == IF n < 10 THEN <<DigitChar(n)>> ELSE Dec2(n)

Ticker(base, day, month, year, strike, side, tail) ==
    base \o day \o month \o year \o strike \o side \o tail

\* Tickers over every date text: a day of 00 or past the end of the month, an
\* unknown month, leap and common years.
CalendarTickers ==
    {Ticker(<<"N", "I", "F", "T", "Y">>, Dec2(d), m, y, <<"2", "4", "0", "0", "0">>, <<"C", "E">>, <<>>) :
       d \in {0, 1} \cup 28..MaxDay,
       m \in {<<"J", "A", "N">>, <<"F", "E", "B">>, <<"A", "P", "R">>, <<"N", "O", "V">>, <<"D", "E", "C">>, <<"X", "Y", "Z">>},
       y \in {<<"0", "0">>, <<"2", "3">>, <<"2", "4">>, <<"9", "9">>}}

\* Tickers over every shape of the other parts, well formed or not.
ShapeTickers ==
    {Ticker(b, d, m, y, k, sd, tl) :
       b \in {<<"N", "I", "F", "T", "Y">>, <<"n", "i", "f", "t", "y">>, <<"U", "S", "D", "I", "N", "R">>, <<>>},
       d \in {<<"2", "8">>, <<"5">>},
       m \in {<<"N", "O", "V">>, <<"n", "o", "v">>, <<"N", "O">>, <<"N", "O", "V", "E">>},
       y \in {<<"2", "4">>, <<"2">>},
       k \in {<<"2", "4", "0", "0", "0">>, <<"8", "3", ".", "5", "0">>, <<"0">>, <<"0", ".", "0">>, <<".">>, <<"1", ".", "2", ".", "3">>, <<"5", ".">>, <<>>},
       sd \in {<<"C", "E">>, <<"P", "E">>, <<"p", "e">>, <<"X", "X">>, <<>>},
       tl \in {<<>>, <<"X">>, <<"P", "E">>, <<" ">>}}
    \cup {<<"X", "Y", "Z">>, <<>>, <<" ", "N", "I", "F", "T", "Y", "2", "8", "N", "O", "V", "2", "4", "2", "4", "0", "0", "0", "C", "E">>}

HourTexts ==
    {Dec(h) : h \in 0..MaxHourInput} \cup {Dec2(h) : h \in 0..MaxHourInput}
    \cup {<<"-", "1">>, <<"-", "0">>, <<" ", "9">>, <<"+", "9">>, <<"X">>, <<"1", "X">>, <<>>}

MinuteTexts ==
    {Dec(m) : m \in {0, 5, 30} \cup 58..MaxMinuteInput}
    \cup {Dec2(m) : m \in {0, 5, 30} \cup 58..MaxMinuteInput}
    \cup {<<"-", "1">>, <<"3", "X">>, <<>>}

\* custom_expiry_time: None, or text
ExpiryOverrides ==
    {PyNone}
    \cup {PyChars(h \o <<":">> \o m) : h \in HourTexts, m \in MinuteTexts}
    \cup {PyChars(h) : h \in HourTexts}
    \cup {PyChars(<<"1", "9", ":", "0", "0", ":", "0", "0">>), PyChars(<<"1", "9", ".", "0", "0">>), PyChars(<<"1", "9", ":", "0", "0", " ">>), PyChars(<<":">>)}

FewOverrides == {PyNone, PyChars(<<>>), PyChars(<<"1", "9", ":", "0", "0">>), PyChars(<<"2", "5", ":", "6", "1">>), PyChars(<<"9", ":", "5">>)}

FewTickers == {<<"N", "I", "F", "T", "Y", "2", "8", "N", "O", "V", "2", "4", "2", "4", "0", "0", "0", "C", "E">>, <<"G", "O", "L", "D", "3", "1", "D", "E", "C", "2", "4", "7", "2", "0", "0", "0", "P", "E">>, <<"X", "Y", "Z">>}

OptionExchanges == {"NFO", "BFO", "CDS", "MCX"}

ParseInputs ==
    ((CalendarTickers \cup ShapeTickers) \X OptionExchanges \X FewOverrides)
    \cup (FewTickers \X OptionExchanges \X ExpiryOverrides)

\* base_symbol and options_exchange given to get_underlying_exchange
BaseSymbols ==
    NSE_INDEX_SYMBOLS \cup BSE_INDEX_SYMBOLS \cup CURRENCY_SYMBOLS \cup COMMODITY_SYMBOLS
    \cup {"RELIANCE", "INFY", "nifty", ""}

ClassifierExchanges == OptionExchanges \cup {"NSE", "cds", ""}

(***************************************************************************)
(* Inputs of calculate_greeks and get_option_greeks and behaviours of      *)
(* their surroundings.                                                     *)
(***************************************************************************)
\* well formed call and put, a zero strike, a malformed ticker, a well formed
\* ticker with a character after it
GreeksTickers ==
    {<<"N", "I", "F", "T", "Y", "2", "8", "N", "O", "V", "2", "4", "2", "4", "0", "0", "0", "C", "E">>, <<"G", "O", "L", "D", "2", "8", "N", "O", "V", "2", "4", "7", "2", "0", "0", "0", "P", "E">>, <<"N", "I", "F", "T", "Y", "2", "8", "N", "O", "V", "2", "4", "0", "C", "E">>,
     <<"X", "Y", "Z">>, <<"N", "I", "F", "T", "Y", "2", "8", "N", "O", "V", "2", "4", "2", "4", "0", "0", "0", "C", "E", "X">>}

GreeksExchanges == {"NFO", "MCX"}

GreeksOverrides == {PyNone, PyChars(<<"1", "9", ":", "0", "0">>), PyChars(<<"2", "5", ":", "6", "1">>)}

SpotPrices == {Num(0, 0), Num(-100, 0), Num(2400050, 2), PyChars(<<"2", "4", "0", "0", "0">>)}

OptionPrices == {Num(0, 0), Num(15025, 2), PyNone}

InterestRates == {PyNone, Num(65, 1), PyChars(<<"6", ".", "5">>)}

\* 2024-11-28 15:30, the default expiry of the NFO tickers above
RefTime == [year |-> 2024, month |-> 11, day |-> 28, hour |-> 15, minute |-> 30]

\* datetime.now(), in seconds from RefTime: a month before, just more and just
\* less than 0.01 days before, at, just after, and long after.
NowOffsets == {-2592000, -865, -863, 0, 1, 34560000}

NowTimes == {Timestamp(RefTime) + d : d \in NowOffsets}

\* mibian.BS(..., callPrice/putPrice = price).impliedVolatility
IvOutcomes == {Raise("Exception"), Ok(Num(1523, 2))}

\* mibian.BS(..., volatility = iv) and its Greeks
GreeksOutcomes ==
    {Raise("Exception"),
     Ok([delta |-> Num(5123, 4), gamma |-> Num(312, 6), theta |-> Num(-82510, 4),
         vega |-> Num(121234, 4), rho |-> Num(1534, 6)])}

GreeksEnvs ==
    [available : BOOLEAN, now : NowTimes, iv : IvOutcomes, greeks : GreeksOutcomes]

Fetched(success, response, status_code) ==
    Ok([success |-> success, response |-> response, status_code |-> status_code])

\* services.quotes_service.get_quotes(symbol, exchange, api_key)
FetchOutcomes ==
    {Raise("Exception"),
     Fetched(FALSE, PyDict([status |-> PyStr("error"),
                            message |-> PyStr("Invalid openalgo apikey")]), 403),
     Fetched(FALSE, PyDict([status |-> PyStr("error")]), 500),
     Fetched(FALSE, PyNone, 500),
     Fetched(TRUE, PyDict([status |-> PyStr("success"),
                           data |-> PyDict([ltp |-> Num(2400050, 2), bid |-> Zero])]), 200),
     Fetched(TRUE, PyDict([status |-> PyStr("success"),
                           data |-> PyDict([bid |-> Zero])]), 200),
     Fetched(TRUE, PyDict([status |-> PyStr("success")]), 200),
     Fetched(TRUE, PyDict([status |-> PyStr("success"),
                           data |-> PyDict([ltp |-> Zero])]), 200),
     Fetched(TRUE, PyDict([status |-> PyStr("success"),
                           data |-> PyDict([ltp |-> PyNone])]), 200),
     Fetched(TRUE, PyDict([status |-> PyStr("success"), data |-> PyNone]), 200),
     Fetched(TRUE, PyNone, 200),
     Fetched(TRUE, PyDict([status |-> PyStr("success"),
                           data |-> PyDict([ltp |-> PyChars(<<"2", "4", "0", "0", "0", ".", "5">>)])]), 200)}

UnderlyingSymbols == {PyNone, PyStr(""), PyStr("NIFTY28NOV24FUT")}

UnderlyingExchanges == {PyNone, PyStr("NFO")}

\* The import of the quote service fails, or it succeeds and the calls follow.
OptionGreeksEnvs ==
    [import_ok : {TRUE}, spot : FetchOutcomes, option : FetchOutcomes,
     available : BOOLEAN, now : {Timestamp(RefTime) - 865, Timestamp(RefTime) + 1},
     iv : IvOutcomes, greeks : GreeksOutcomes]
    \cup {[import_ok |-> FALSE]}

OptionGreeksTickers ==
    {<<"N", "I", "F", "T", "Y", "2", "8", "N", "O", "V", "2", "4", "2", "4", "0", "0", "0", "C", "E">>,
     <<"G", "O", "L", "D", "2", "8", "N", "O", "V", "2", "4", "7", "2", "0", "0", "0", "P", "E">>,
     <<"X", "Y", "Z">>}

OptionGreeksOverrides == {PyNone, PyChars(<<"2", "5", ":", "6", "1">>)}

(***************************************************************************)
(* The calls.                                                              *)
(***************************************************************************)
Init ==
    /\ pc = "idle"
    /\ op = "none"
    /\ args = <<>>
    /\ ret = Ok(PyNone)
    /\ log = <<>>

\* What a call leaves behind: r is the [ret, log] its body produced.
Done(name, a, r) ==
    /\ pc' = "done"
    /\ op' = name
    /\ args' = a
    /\ ret' = r.ret
    /\ log' = r.log

GetQuotes ==
    /\ pc = "idle"
    /\ \E symbol \in AdapterSymbols, exchange \in AdapterExchanges,
          tok \in TokenOutcomes, brx \in BrexchangeOutcomes, http \in QuoteHttp :
           Done("get_quotes", [symbol |-> symbol, exchange |-> exchange],
                get_quotes(symbol, exchange, tok, brx, http))

GetDepth ==
    /\ pc = "idle"
    /\ \E symbol \in DepthSymbols, exchange \in DepthExchanges,
          tok \in TokenOutcomes, brx \in BrexchangeOutcomes, http \in DepthHttp :
           Done("get_depth", [symbol |-> symbol, exchange |-> exchange],
                get_depth(symbol, exchange, tok, brx, http))

CalculateGreeks ==
    /\ pc = "idle"
    /\ \E option_symbol \in GreeksTickers, exchange \in GreeksExchanges,
          spot_price \in SpotPrices, option_price \in OptionPrices,
          interest_rate \in InterestRates, expiry_time \in GreeksOverrides,
          env \in GreeksEnvs :
           Done("calculate_greeks",
                [option_symbol |-> option_symbol, exchange |-> exchange,
                 spot_price |-> spot_price, option_price |-> option_price,
                 interest_rate |-> interest_rate, expiry_time |-> expiry_time],
                calculate_greeks(option_symbol, exchange, spot_price, option_price,
                                 interest_rate, expiry_time, env))

GetOptionGreeks ==
    /\ pc = "idle"
    /\ \E option_symbol \in OptionGreeksTickers, exchange \in GreeksExchanges,
          underlying_symbol \in UnderlyingSymbols,
          underlying_exchange \in UnderlyingExchanges,
          expiry_time \in OptionGreeksOverrides, env \in OptionGreeksEnvs :
           Done("get_option_greeks",
                [option_symbol |-> option_symbol, exchange |-> exchange,
                 interest_rate |-> PyNone, underlying_symbol |-> underlying_symbol,
                 underlying_exchange |-> underlying_exchange,
                 expiry_time |-> expiry_time],
                get_option_greeks(option_symbol, exchange, PyNone, underlying_symbol,
                                  underlying_exchange, expiry_time, env))

Return ==
    /\ pc = "done"
    /\ pc' = "idle"
    /\ op' = "none"
    /\ args' = <<>>
    /\ ret' = Ok(PyNone)
    /\ log' = <<>>

Next == GetQuotes \/ GetDepth \/ CalculateGreeks \/ GetOptionGreeks \/ Return

Spec == Init /\ [][Next]_vars

(***************************************************************************)
(* The pure functions of the Greeks service, called on their own.          *)
(***************************************************************************)
ParseOptionSymbol ==
    /\ pc = "idle"
    /\ \E in \in ParseInputs :
          Done("parse_option_symbol",
               [symbol |-> in[1], exchange |-> in[2], custom_expiry_time |-> in[3]],
               [ret |-> parse_option_symbol(in[1], in[2], in[3]), log |-> <<>>])

GetUnderlyingExchange ==
    /\ pc = "idle"
    /\ \E base_symbol \in BaseSymbols, options_exchange \in ClassifierExchanges :
          Done("get_underlying_exchange",
               [base_symbol |-> base_symbol, options_exchange |-> options_exchange],
               [ret |-> Ok(get_underlying_exchange(base_symbol, options_exchange)),
                log |-> <<>>])

\* Expiries given to calculate_time_to_expiry: the end of a leap February, a
\* new year's midnight, and the expiry of the NFO tickers.
ExpiryTimes ==
    {RefTime,
     [year |-> 2024, month |-> 2, day |-> 29, hour |-> 23, minute |-> 30],
     [year |-> 2025, month |-> 1, day |-> 1, hour |-> 0, minute |-> 0]}

\* The expiry minus datetime.now(), in seconds: past, now, below, at and above
\* 0.01 days, a minute, half a day, days, a year.
SecondsToExpiry ==
    {-86400, -60, -1, 0, 1, 59, 60, 863, 864, 865, 3600, 43200, 86399, 86400, 86401,
     604800, 31536000}

CalculateTimeToExpiry ==
    /\ pc = "idle"
    /\ \E expiry \in ExpiryTimes, d \in SecondsToExpiry :
          Done("calculate_time_to_expiry",
               [expiry |-> expiry, current_time |-> Timestamp(expiry) - d],
               [ret |-> Ok(calculate_time_to_expiry(expiry, Timestamp(expiry) - d)),
                log |-> <<>>])

NextPure == ParseOptionSymbol \/ GetUnderlyingExchange \/ CalculateTimeToExpiry \/ Return

SpecPure == Init /\ [][NextPure]_vars

(***************************************************************************)
(* What the claims read from a finished call.                              *)
(***************************************************************************)
Finished(name) == pc = "done" /\ op = name

LogOf(call) == SelectSeq(log, LAMBDA e : e.call = call)

\* A lookup came back with nothing (None or an empty string).
LookupReturnedNothing ==
    \E i \in 1..Len(log) :
        /\ log[i].call \in {"get_token", "get_brexchange"}
        /\ log[i].out.exc = "none"
        /\ ~Truthy(log[i].out.val)

\* The HTTP call was made and raised, or answered with a status other than 200.
HttpErrored ==
    \E i \in 1..Len(log) :
        /\ log[i].call = "http_get"
        /\ \/ log[i].out.kind = "raise"
           \/ log[i].out.status # 200

\* The HTTP call answered 200 with a payload that is absent (null, or text that
\* does not decode), not a list, or an empty list.
HttpNoPayload ==
    \E i \in 1..Len(log) :
        /\ log[i].call = "http_get"
        /\ log[i].out.kind = "response"
        /\ log[i].out.status = 200
        /\ \/ log[i].out.body.t # "list"
           \/ log[i].out.body.items = <<>>

\* The first element of the payload the handler was given, when there is one.
HasFirstItem ==
    \E i \in 1..Len(log) :
        /\ log[i].call = "http_get"
        /\ log[i].out.kind = "response"
        /\ log[i].out.status = 200
        /\ log[i].out.body.t = "list"
        /\ log[i].out.body.items # <<>>

FirstItem == LogOf("http_get")[1].out.body.items[1]

(***************************************************************************)
(* C1: get_quotes returns exactly the all-zero default quote, and          *)
(* get_depth exactly the all-zero default depth, whenever a lookup returns *)
(* nothing, the HTTP call raises, the status is not 200, or the payload is *)
(* absent, not a list or an empty list; so a 200 with an empty array and a *)
(* 500 give the same record.                                               *)
(***************************************************************************)
C1_DefaultOnFailure ==
    (pc = "done" /\ op \in {"get_quotes", "get_depth"}
       /\ (LookupReturnedNothing \/ HttpErrored \/ HttpNoPayload))
    => ret = Ok(IF op = "get_quotes" THEN DefaultQuote ELSE DefaultDepth)

\* A 500 whose body is a well-formed quote list has been answered with the
\* default record.
C1_Witness ==
    /\ Finished("get_quotes")
    /\ \E i \in 1..Len(log) :
          /\ log[i].call = "http_get"
          /\ log[i].out.kind = "response"
          /\ log[i].out.status = 500
          /\ log[i].out.body.t = "list"
          /\ log[i].out.body.items # <<>>
    /\ ret = Ok(DefaultQuote)

(***************************************************************************)
(* C2: every record get_depth returns has exactly 5 bids and 5 asks; the   *)
(* first min(n, 5) are the vendor's first levels in order (n = 0 when the  *)
(* side is not a list), the rest are zero levels, and totalbuyqty and      *)
(* totalsellqty are the sums of the 5 returned quantities; when the        *)
(* payload cannot be used the record is the default one.                   *)
(***************************************************************************)
Readable(lv) ==
    /\ lv.t = "dict"
    /\ PyFloat(DictGet(lv, "price", Zero)).exc = "none"
    /\ PyInt(DictGet(lv, "quantity", Zero)).exc = "none"

Reading(lv) ==
    [price |-> PyFloat(DictGet(lv, "price", Zero)).val,
     quantity |-> PyInt(DictGet(lv, "quantity", Zero)).val]

\* The levels the vendor sent for a side: none when the side is left out or
\* is not a list.
VendorLevels(side) ==
    LET d == DictGet(FirstItem, "depth", EmptyDict)
        x == DictGet(d, side, PyList(<<>>))
    IN IF x.t = "list" THEN x.items ELSE <<>>

Min(a, b) == IF a < b THEN a ELSE b

DepthUsable ==
    /\ HasFirstItem
    /\ FirstItem.t = "dict"
    /\ DictGet(FirstItem, "depth", EmptyDict).t = "dict"
    /\ \A side \in {"buy", "sell"} :
          \A i \in 1..Min(Len(VendorLevels(side)), 5) : Readable(VendorLevels(side)[i])

SideIs(levels, side) ==
    /\ Len(levels) = 5
    /\ \A i \in 1..5 :
          levels[i] = IF i <= Len(VendorLevels(side)) THEN Reading(VendorLevels(side)[i])
                      ELSE ZeroLevel

C2_DepthShape ==
    Finished("get_depth") =>
        /\ ret.exc = "none"
        /\ Len(ret.val.bids) = 5
        /\ Len(ret.val.asks) = 5
        /\ ret.val.totalbuyqty = Num(SumQuantity(ret.val.bids), 0)
        /\ ret.val.totalsellqty = Num(SumQuantity(ret.val.asks), 0)
        /\ IF DepthUsable
           THEN SideIs(ret.val.bids, "buy") /\ SideIs(ret.val.asks, "sell")
           ELSE ret.val = DefaultDepth

\* Three bid levels and more than five ask levels came back as 3 + 2 zeros
\* and the first five.
C2_Witness ==
    /\ Finished("get_depth")
    /\ DepthUsable
    /\ Len(VendorLevels("buy")) = 3
    /\ Len(VendorLevels("sell")) > 5
    /\ ret.val.bids[3] # ZeroLevel
    /\ ret.val.bids[4] = ZeroLevel
    /\ ret.val.asks[5] # ZeroLevel
    /\ ret.val.totalbuyqty.num > 0

(***************************************************************************)
(* C3: no exception escapes get_quotes, get_depth, calculate_greeks or     *)
(* get_option_greeks: whatever the inputs and whatever the lookups, the    *)
(* HTTP client, the quote fetch, the parser and the pricing library do,    *)
(* the call returns a value: a record from the adapter, a (success,        *)
(* response, status_code) triple from the Greeks service.                  *)
(***************************************************************************)
C3_NoExceptionEscapes ==
    (pc = "done" /\ op \in {"get_quotes", "get_depth", "calculate_greeks", "get_option_greeks"})
    => /\ ret.exc = "none"
       /\ op \in {"calculate_greeks", "get_option_greeks"}
          => /\ DOMAIN ret.val = {"success", "response", "status_code"}
             /\ ret.val.success \in BOOLEAN
             /\ ret.val.status_code \in {200, 400, 403, 404, 500}

\* A spot price given as text made the comparison with 0 raise after the
\* ticker was parsed; calculate_greeks returned the 500 triple.
C3_Witness ==
    /\ Finished("calculate_greeks")
    /\ args.spot_price.t = "chars"
    /\ LogOf("calculate_time_to_expiry") # <<>>
    /\ LogOf("calculate_time_to_expiry")[1].out > 0
    /\ ret = Failure("Failed to calculate option Greeks", 500)

(***************************************************************************)
(* C4: a malformed option symbol or an invalid custom expiry time, that    *)
(* is, a ValueError of parse_option_symbol, is reported with status 400    *)
(* and an error object, by calculate_greeks and by get_option_greeks       *)
(* alike.                                                                  *)
(***************************************************************************)
ParserRejected ==
    \E i \in 1..Len(log) :
        /\ log[i].call = "parse_option_symbol"
        /\ log[i].out.exc = "ValueError"

C4_ValidationIs400 ==
    (pc = "done" /\ op \in {"calculate_greeks", "get_option_greeks"} /\ ParserRejected)
    => /\ ret.exc = "none"
       /\ ~ret.val.success
       /\ ret.val.status_code = 400
       /\ ret.val.response.status = "error"

(***************************************************************************)
(* C5: when the expiry that calculate_greeks parsed is strictly before the *)
(* current time, it returns the 400 failure "Option has expired" and       *)
(* mibian.BS is never constructed: the pricing library gets no floored or  *)
(* non-positive time to expiry for such an option, and no success is       *)
(* returned.                                                               *)
(***************************************************************************)
\* The expiry parsed in this call is before what datetime.now() returned.
ExpiredAtCall ==
    \E i \in 2..Len(log) :
        /\ log[i].call = "calculate_time_to_expiry"
        /\ log[i - 1].call = "parse_option_symbol"
        /\ Timestamp(log[i - 1].out.val.expiry) < log[i].now

C5_ExpiredRejected ==
    (Finished("calculate_greeks") /\ ExpiredAtCall)
    => /\ ret = Failure("Option has expired", 400)
       /\ LogOf("mibian.BS") = <<>>

\* An option that expired one second ago was refused.
C5_Witness ==
    /\ Finished("calculate_greeks")
    /\ ExpiredAtCall
    /\ \E i \in 2..Len(log) :
          /\ log[i].call = "calculate_time_to_expiry"
          /\ log[i].now = Timestamp(log[i - 1].out.val.expiry) + 1
    /\ ret = Failure("Option has expired", 400)

(***************************************************************************)
(* C6: in get_option_greeks, when a quote fetch succeeds and its payload   *)
(* has no ltp field (no data, or data without ltp), for the underlying or  *)
(* for the option, the call returns a failure with status 404 and          *)
(* calculate_greeks is not called; whenever calculate_greeks is called,    *)
(* both prices are the non-zero ltp values of the two payloads.            *)
(***************************************************************************)
\* out is a successful fetch whose payload is a dict whose data, a dict when
\* present, has no ltp.
NoLtp(out) ==
    /\ out.exc = "none"
    /\ out.val.success
    /\ out.val.response.t = "dict"
    /\ DictGet(out.val.response, "data", EmptyDict).t = "dict"
    /\ "ltp" \notin DOMAIN DictGet(out.val.response, "data", EmptyDict).f

LtpOf(out) == DictGet(DictGet(out.val.response, "data", EmptyDict), "ltp", PyNone)

C6_MissingLtpIs404 ==
    Finished("get_option_greeks")
    => /\ (\E i \in 1..Len(log) : log[i].call = "get_quotes" /\ NoLtp(log[i].out))
          => /\ ret.exc = "none"
             /\ ~ret.val.success
             /\ ret.val.status_code = 404
             /\ LogOf("calculate_greeks") = <<>>
       /\ \A i \in 1..Len(log) :
             log[i].call = "calculate_greeks"
             => /\ Len(LogOf("get_quotes")) = 2
                /\ log[i].spot_price = LtpOf(LogOf("get_quotes")[1].out)
                /\ log[i].option_price = LtpOf(LogOf("get_quotes")[2].out)
                /\ Truthy(log[i].spot_price)
                /\ Truthy(log[i].option_price)

\* The underlying was priced, the option's payload had data without ltp, and
\* the answer was 404.
C6_Witness ==
    /\ Finished("get_option_greeks")
    /\ Len(LogOf("get_quotes")) = 2
    /\ NoLtp(LogOf("get_quotes")[2].out)
    /\ "data" \in DOMAIN LogOf("get_quotes")[2].out.val.response.f
    /\ ret = Failure("Option LTP not available", 404)
    /\ LogOf("calculate_greeks") = <<>>

(***************************************************************************)
(* C7 as stated: for a well formed ticker, an override "HH:MM" (two        *)
(* digits, a colon, two digits) with hour 0..23 and minute 0..59 gives     *)
(* exactly that time; any other override that is supplied makes parsing    *)
(* fail with ValueError; with no override the time is 23:30 for MCX, 12:30 *)
(* for CDS and 15:30 otherwise.                                            *)
(***************************************************************************)
\* The ticker parses when no override is given.
WellFormedTicker(symbol, exchange) ==
    parse_option_symbol(symbol, exchange, PyNone).exc = "none"

SegmentDefault(exchange) ==
    CASE exchange = "MCX" -> [hour |-> 23, minute |-> 30]
      [] exchange = "CDS" -> [hour |-> 12, minute |-> 30]
      [] OTHER -> [hour |-> 15, minute |-> 30]

\* ret is a parsed tuple whose expiry is at the time t.
ExpiresAt(t) ==
    /\ ret.exc = "none"
    /\ ret.val.expiry.hour = t.hour
    /\ ret.val.expiry.minute = t.minute

IsHHMM(s) ==
    /\ Len(s) = 5
    /\ s[3] = ":"
    /\ AllIn(<<s[1], s[2], s[4], s[5]>>, Digits)

C7_StrictOverride ==
    (Finished("parse_option_symbol") /\ WellFormedTicker(args.symbol, args.exchange))
    => IF args.custom_expiry_time.t = "None"
       THEN ExpiresAt(SegmentDefault(args.exchange))
       ELSE IF /\ IsHHMM(args.custom_expiry_time.v)
               /\ DigitsVal(SubSeq(args.custom_expiry_time.v, 1, 2)) <= 23
               /\ DigitsVal(SubSeq(args.custom_expiry_time.v, 4, 5)) <= 59
       THEN ExpiresAt([hour |-> DigitsVal(SubSeq(args.custom_expiry_time.v, 1, 2)),
                       minute |-> DigitsVal(SubSeq(args.custom_expiry_time.v, 4, 5))])
       ELSE ret.exc = "ValueError"

(***************************************************************************)
(* C7: for a well formed ticker, a non-empty override with exactly one     *)
(* colon whose two sides int() reads (digits, with blanks around and one   *)
(* sign allowed, so "9:5" too) as an hour in 0..23 and a minute in 0..59   *)
(* gives exactly that hour and minute whatever the exchange; any other     *)
(* non-empty override makes parsing fail with ValueError; with no override *)
(* or an empty one the time is 23:30 for MCX, 12:30 for CDS and 15:30 for  *)
(* every other exchange.                                                   *)
(***************************************************************************)
\* The text before and after the one colon of s.
BeforeColon(s) == SubSeq(s, 1, (CHOOSE i \in 1..Len(s) : s[i] = ":") - 1)

AfterColon(s) == SubSeq(s, (CHOOSE i \in 1..Len(s) : s[i] = ":") + 1, Len(s))

ReadableOverride(s) ==
    /\ CountOf(s, ":") = 1
    /\ IntOfChars(BeforeColon(s)).exc = "none"
    /\ IntOfChars(AfterColon(s)).exc = "none"
    /\ IntOfChars(BeforeColon(s)).val \in 0..23
    /\ IntOfChars(AfterColon(s)).val \in 0..59

C7_ExpiryResolution ==
    (Finished("parse_option_symbol") /\ WellFormedTicker(args.symbol, args.exchange))
    => IF args.custom_expiry_time.t = "None" \/ args.custom_expiry_time.v = <<>>
       THEN ExpiresAt(SegmentDefault(args.exchange))
       ELSE IF ReadableOverride(args.custom_expiry_time.v)
       THEN ExpiresAt([hour |-> IntOfChars(BeforeColon(args.custom_expiry_time.v)).val,
                       minute |-> IntOfChars(AfterColon(args.custom_expiry_time.v)).val])
       ELSE ret.exc = "ValueError"

\* "9:5" on an MCX ticker gave an expiry at 09:05.
C7_Witness ==
    /\ Finished("parse_option_symbol")
    /\ args.exchange = "MCX"
    /\ args.custom_expiry_time = PyChars(<<"9", ":", "5">>)
    /\ ExpiresAt([hour |-> 9, minute |-> 5])

(***************************************************************************)
(* C8: get_underlying_exchange returns NSE_INDEX for a symbol of the NSE   *)
(* index set; else BSE_INDEX for one of the BSE index set; else CDS when   *)
(* the symbol is in the currency set or the options exchange is CDS; else  *)
(* MCX when the symbol is in the commodity set or the options exchange is  *)
(* MCX; else NSE.  So CDS or MCX as options exchange decides for a symbol  *)
(* of none of the sets, and the result is one of the five codes.           *)
(***************************************************************************)
InNoSet(b) ==
    b \notin NSE_INDEX_SYMBOLS \cup BSE_INDEX_SYMBOLS \cup CURRENCY_SYMBOLS \cup COMMODITY_SYMBOLS

C8_UnderlyingExchange ==
    Finished("get_underlying_exchange")
    => /\ ret.exc = "none"
       /\ ret.val \in {"NSE_INDEX", "BSE_INDEX", "CDS", "MCX", "NSE"}
       /\ args.base_symbol \in NSE_INDEX_SYMBOLS => ret.val = "NSE_INDEX"
       /\ (args.base_symbol \notin NSE_INDEX_SYMBOLS /\ args.base_symbol \in BSE_INDEX_SYMBOLS)
          => ret.val = "BSE_INDEX"
       /\ (/\ args.base_symbol \notin NSE_INDEX_SYMBOLS \cup BSE_INDEX_SYMBOLS
           /\ (args.base_symbol \in CURRENCY_SYMBOLS \/ args.options_exchange = "CDS"))
          => ret.val = "CDS"
       /\ (/\ args.base_symbol \notin NSE_INDEX_SYMBOLS \cup BSE_INDEX_SYMBOLS \cup CURRENCY_SYMBOLS
           /\ args.options_exchange # "CDS"
           /\ (args.base_symbol \in COMMODITY_SYMBOLS \/ args.options_exchange = "MCX"))
          => ret.val = "MCX"
       /\ (InNoSet(args.base_symbol) /\ args.options_exchange \notin {"CDS", "MCX"})
          => ret.val = "NSE"
       /\ (InNoSet(args.base_symbol) /\ args.options_exchange \in {"CDS", "MCX"})
          => ret.val = args.options_exchange

\* A symbol of none of the sets on MCX was classified MCX.
C8_Witness ==
    /\ Finished("get_underlying_exchange")
    /\ InNoSet(args.base_symbol)
    /\ args.options_exchange = "MCX"
    /\ ret = Ok("MCX")

(***************************************************************************)
(* C9 as stated: every tuple parse_option_symbol returns has strike > 0,   *)
(* side CE or PE, and an expiry that is a valid calendar date with year    *)
(* 2000 + the ticker's two digits and the ticker's day and month; a        *)
(* ticker whose day and month form no valid date, whose month is unknown   *)
(* or whose strike text is not a number makes parsing fail.                *)
(***************************************************************************)
\* The parts of the ticker, as the pattern cuts it.
Parts == RegexMatch(Upper(args.symbol)).groups

\* The returned side and expiry are those of the ticker and form a date.
ParsedDateAndSide ==
    /\ RegexMatch(Upper(args.symbol)).matched
    /\ ret.val.opt_type \in {<<"C", "E">>, <<"P", "E">>}
    /\ ret.val.opt_type = Parts.opt_type
    /\ ret.val.expiry.year = 2000 + DigitsVal(Parts.year)
    /\ MonthMap(Parts.month_str) = Ok(ret.val.expiry.month)
    /\ ret.val.expiry.month \in 1..12
    /\ ret.val.expiry.day = DigitsVal(Parts.day)
    /\ ret.val.expiry.day \in 1..DaysInMonth(ret.val.expiry.year, ret.val.expiry.month)

\* The strike text is a number: digits with at most one point.
NumericText(s) == CountOf(s, ".") <= 1 /\ \E i \in 1..Len(s) : s[i] \in Digits

\* The ticker matches the pattern and its month is unknown, its day is not
\* one of the month, or its strike text is not a number.
BadDateOrStrike ==
    /\ RegexMatch(Upper(args.symbol)).matched
    /\ \/ MonthMap(Parts.month_str).exc # "none"
       \/ DigitsVal(Parts.day) \notin
             1..DaysInMonth(2000 + DigitsVal(Parts.year), MonthMap(Parts.month_str).val)
       \/ ~NumericText(Parts.strike_str)

C9_StrikePositive ==
    Finished("parse_option_symbol")
    => /\ ret.exc = "none" => (ret.val.strike.num > 0 /\ ParsedDateAndSide)
       /\ BadDateOrStrike => ret.exc = "ValueError"

(***************************************************************************)
(* C9: every tuple parse_option_symbol returns has strike >= 0 (a strike   *)
(* text of 0 or 0.0 is returned as 0.0), side CE or PE, and an expiry that *)
(* is a valid calendar date with year 2000 + the ticker's two digits and   *)
(* the ticker's day and month; a ticker whose day and month form no valid  *)
(* date, whose month is unknown or whose strike text is not a number makes *)
(* parsing fail with ValueError.                                           *)
(***************************************************************************)
C9_ParsedSymbol ==
    Finished("parse_option_symbol")
    => /\ ret.exc = "none"
          => /\ ret.val.strike.t = "num"
             /\ ret.val.strike.num >= 0
             /\ FloatOfChars(Parts.strike_str) = Ok(ret.val.strike)
             /\ ParsedDateAndSide
       /\ BadDateOrStrike => ret.exc = "ValueError"

\* A ticker with the strike text 0 came back with strike 0.
C9_Witness ==
    /\ Finished("parse_option_symbol")
    /\ ret.exc = "none"
    /\ Parts.strike_str = <<"0">>
    /\ ret.val.strike = Zero
    /\ ParsedDateAndSide

(***************************************************************************)
(* C10: parse_option_symbol fails for every ticker that is not, as a       *)
(* whole, letters, a 2-digit day, a 3-letter month, a 2-digit year, a      *)
(* strike of digits and points, and CE or PE: in particular one with       *)
(* characters after CE or PE.  Letters are taken in either case.           *)
(***************************************************************************)
\* s is, from its first to its last character, of the form.
WholeForm(s) ==
    \E n1 \in 1..Len(s), n5 \in 1..Len(s) :
        /\ Len(s) = n1 + 7 + n5 + 2
        /\ AllIn(SubSeq(s, 1, n1), UpperLetters)
        /\ AllIn(SubSeq(s, n1 + 1, n1 + 2), Digits)
        /\ AllIn(SubSeq(s, n1 + 3, n1 + 5), UpperLetters)
        /\ AllIn(SubSeq(s, n1 + 6, n1 + 7), Digits)
        /\ AllIn(SubSeq(s, n1 + 8, n1 + 7 + n5), Digits \cup {"."})
        /\ SubSeq(s, n1 + 8 + n5, Len(s)) \in {<<"C", "E">>, <<"P", "E">>}

C10_WholeFormOnly ==
    (Finished("parse_option_symbol") /\ ~WholeForm(Upper(args.symbol)))
    => ret.exc = "ValueError"

(***************************************************************************)
(* C11 as stated: calculate_greeks parses the symbol first and looks at    *)
(* the availability of the pricing backend second, so a malformed symbol   *)
(* is reported as such (400, no later stage run) whether or not the        *)
(* backend is available.                                                   *)
(***************************************************************************)
\* The arguments of this call of calculate_greeks make the parser raise.
SymbolRejected ==
    parse_option_symbol(args.option_symbol, args.exchange, args.expiry_time).exc # "none"

\* The calls made, in order.
Stages == [i \in 1..Len(log) |-> log[i].call]

C11_ParseFirst ==
    (Finished("calculate_greeks") /\ SymbolRejected)
    => /\ ret = Failure("Failed to parse option symbol", 400)
       /\ "mibian.BS" \notin {Stages[i] : i \in 1..Len(Stages)}
       /\ "calculate_time_to_expiry" \notin {Stages[i] : i \in 1..Len(Stages)}

(***************************************************************************)
(* C11: calculate_greeks runs its stages in the order: availability of the *)
(* pricing backend, parse of the symbol, time to expiry (expired test),    *)
(* interest rate, positivity of spot price, option price and strike,       *)
(* implied volatility, Greeks.  The first stage that fails determines the  *)
(* result and no later stage runs: an unavailable backend gives 500 even   *)
(* for a malformed symbol, a malformed symbol gives 400 before the time is *)
(* read, an expired option gives 400 even with non-positive prices, and    *)
(* the Greeks are built only after the implied volatility was solved.      *)
(***************************************************************************)
\* A price argument that is a number and not positive.
Unpositive(x) == x.t = "num" /\ x.num <= 0

\* An argument whose arithmetic or comparison raises TypeError.
NotNumber(x) == x.t # "num"

\* The result and the stages run once the time to expiry is known to be
\* positive, for the strike parsed.
C11_AfterTime(strike) ==
    IF args.interest_rate.t \notin {"None", "num"} \/ NotNumber(args.spot_price)
    THEN /\ ret = Failure("Failed to calculate option Greeks", 500)
         /\ Len(log) = 3
    ELSE IF Unpositive(args.spot_price)
    THEN /\ ret = Failure("Spot price and option price must be positive", 400)
         /\ Len(log) = 3
    ELSE IF NotNumber(args.option_price)
    THEN /\ ret = Failure("Failed to calculate option Greeks", 500)
         /\ Len(log) = 3
    ELSE IF Unpositive(args.option_price)
    THEN /\ ret = Failure("Spot price and option price must be positive", 400)
         /\ Len(log) = 3
    ELSE IF strike.num <= 0
    THEN /\ ret = Failure("Strike price must be positive", 400)
         /\ Len(log) = 3
    ELSE /\ Len(log) >= 4
         /\ log[4].call = "mibian.BS"
         /\ log[4].given \in {"callPrice", "putPrice"}
         /\ IF log[4].out.exc # "none"
            THEN /\ ret = Failure("Failed to calculate Implied Volatility", 500)
                 /\ Len(log) = 4
            ELSE /\ Len(log) = 5
                 /\ log[5].call = "mibian.BS"
                 /\ log[5].given = "volatility"
                 /\ log[5].volatility = log[4].out.val
                 /\ IF log[5].out.exc # "none"
                    THEN ret = Failure("Failed to calculate Greeks", 500)
                    ELSE ret.val.status_code = 200

C11_StageOrder ==
    Finished("calculate_greeks")
    => /\ Len(log) >= 1
       /\ log[1].call = "check_mibian_availability"
       /\ IF ~log[1].out
          THEN /\ ret.val.status_code = 500
               /\ ret.val.response.message = "requires mibian library"
               /\ Len(log) = 1
          ELSE /\ Len(log) >= 2
               /\ log[2].call = "parse_option_symbol"
               /\ IF SymbolRejected
                  THEN /\ ret = Failure("Failed to parse option symbol", 400)
                       /\ Len(log) = 2
                  ELSE /\ Len(log) >= 3
                       /\ log[3].call = "calculate_time_to_expiry"
                       /\ IF log[3].out <= 0
                          THEN /\ ret = Failure("Option has expired", 400)
                               /\ Len(log) = 3
                          ELSE C11_AfterTime(log[2].out.val.strike)

\* A malformed symbol with the backend missing was answered for the backend,
\* and the parser was not called.
C11_Witness ==
    /\ Finished("calculate_greeks")
    /\ SymbolRejected
    /\ Stages = <<"check_mibian_availability">>
    /\ ~log[1].out
    /\ ret.val.status_code = 500

(***************************************************************************)
(* C12 as stated: a call of get_quotes or get_depth makes no HTTP request  *)
(* when the exchange has no INDEX in it and a lookup returns nothing, and  *)
(* in every other case exactly one, with the query <segment>|<symbol or    *)
(* name>; no lookup is made for an INDEX exchange.                         *)
(***************************************************************************)
IsAdapterCall == pc = "done" /\ op \in {"get_quotes", "get_depth"}

IsIndexCall == Contains(<<"I", "N", "D", "E", "X">>, Upper(args.exchange))

HttpGets == LogOf("http_get")

Lookups == SelectSeq(log, LAMBDA e : e.call \in {"get_token", "get_brexchange"})

\* The one request made carries the query of this call: from the static
\* tables for an index, from the two lookups otherwise.
OneRequestWithQuery ==
    /\ Len(HttpGets) = 1
    /\ HttpGets[1].filter = IF op = "get_quotes" THEN "all" ELSE "depth"
    /\ HttpGets[1].query =
          IF IsIndexCall
          THEN <<Fmt(KotakExchange(args.exchange)), IndexSymbol(args.symbol)>>
          ELSE <<Fmt(LogOf("get_brexchange")[1].out.val), Fmt(LogOf("get_token")[1].out.val)>>

C12_OneRequestOtherwise ==
    IsAdapterCall
    => /\ IF ~IsIndexCall /\ LookupReturnedNothing
          THEN HttpGets = <<>>
          ELSE OneRequestWithQuery
       /\ IsIndexCall => Lookups = <<>>

(***************************************************************************)
(* C12: a call of get_quotes or get_depth makes at most one HTTP request   *)
(* and never a second one.  It makes none when the exchange has no INDEX   *)
(* in it and a lookup returns nothing or raises, and none when the HTTP    *)
(* client cannot be obtained; in every other case it makes exactly one,    *)
(* with the query <segment>|<symbol or name>, as the last call before it   *)
(* returns, and a request that failed (error, status other than 200, no    *)
(* usable payload) is followed by the default record.  For an INDEX        *)
(* exchange no lookup is made and the static tables give the query.        *)
(***************************************************************************)
LookupRaised ==
    \E i \in 1..Len(log) :
        /\ log[i].call \in {"get_token", "get_brexchange"}
        /\ log[i].out.exc # "none"

ClientMissing == LogOf("get_httpx_client") # <<>>

C12_AtMostOneRequest ==
    IsAdapterCall
    => /\ Len(HttpGets) <= 1
       /\ IF (~IsIndexCall /\ (LookupReturnedNothing \/ LookupRaised)) \/ ClientMissing
          THEN /\ HttpGets = <<>>
               /\ ret = Ok(IF op = "get_quotes" THEN DefaultQuote ELSE DefaultDepth)
          ELSE /\ OneRequestWithQuery
               /\ log[Len(log)].call = "http_get"
               /\ (HttpErrored \/ HttpNoPayload)
                  => ret = Ok(IF op = "get_quotes" THEN DefaultQuote ELSE DefaultDepth)
       /\ IF IsIndexCall THEN Lookups = <<>>
          ELSE /\ Len(Lookups) \in 1..2
               /\ Lookups[1].call = "get_token"

\* get_token raised: no request was made and the default quote came back.
C12_Witness ==
    /\ Finished("get_quotes")
    /\ ~IsIndexCall
    /\ LookupRaised
    /\ ~LookupReturnedNothing
    /\ HttpGets = <<>>
    /\ ret = Ok(DefaultQuote)

(***************************************************************************)
(* C13: for an expiry that is not before the current time,                 *)
(* calculate_time_to_expiry returns max(expiry - now, 0.01 days): never    *)
(* less than 0.01 days, the exact difference when that is at least 0.01    *)
(* days, and 0.01 days, not 0, for an expiry equal to the current time.    *)
(* Times are in seconds; 0.01 days are SecondsPerDay / 100 seconds.        *)
(***************************************************************************)
\* expiry - now of this call, in seconds
SecondsLeft == Timestamp(args.expiry) - args.current_time

C13_FlooredTimeToExpiry ==
    (Finished("calculate_time_to_expiry") /\ SecondsLeft >= 0)
    => /\ ret.exc = "none"
       /\ ret.val >= SecondsPerDay \div 100
       /\ ret.val = IF SecondsLeft >= SecondsPerDay \div 100 THEN SecondsLeft
                    ELSE SecondsPerDay \div 100
       /\ SecondsLeft = 0 => ret.val = SecondsPerDay \div 100

\* An expiry equal to the current time gave 0.01 days.
C13_Witness ==
    /\ Finished("calculate_time_to_expiry")
    /\ SecondsLeft = 0
    /\ ret = Ok(MinExpirySeconds)

(***************************************************************************)
(* C14: get_option_greeks fetches the spot quote under (the                *)
(* underlying_symbol given, else the parsed underlying; the                *)
(* underlying_exchange given, else get_underlying_exchange of the parsed   *)
(* underlying and the option's exchange) and then the option quote under   *)
(* (option symbol, option exchange).  The spot fetch comes first; the      *)
(* option quote is not fetched when the spot fetch fails or has no ltp;    *)
(* and a fetch that returns success = false with an error object returns   *)
(* the fetch's own status code with success = false, and calculate_greeks  *)
(* is not called.  An override counts as given when it is not empty.       *)
(***************************************************************************)
Fetches == LogOf("get_quotes")

\* The underlying that the parser read from the option symbol.
ParsedUnderlying == Join(LogOf("parse_option_symbol")[1].out.val.base_symbol)

SpotKey ==
    [symbol |-> IF Truthy(args.underlying_symbol) THEN args.underlying_symbol.v
                ELSE ParsedUnderlying,
     exchange |-> IF Truthy(args.underlying_exchange) THEN args.underlying_exchange.v
                  ELSE get_underlying_exchange(ParsedUnderlying, args.exchange)]

OptionKey == [symbol |-> Join(args.option_symbol), exchange |-> args.exchange]

KeyOf(e) == [symbol |-> e.symbol, exchange |-> e.exchange]

\* The fetch e returned success = false with an error object.
FetchFailed(e) ==
    /\ e.out.exc = "none"
    /\ ~e.out.val.success
    /\ e.out.val.response.t = "dict"

\* The fetch e returned a quote with a price.
FetchPriced(e) ==
    /\ e.out.exc = "none"
    /\ e.out.val.success
    /\ ~NoLtp(e.out)
    /\ e.out.val.response.t = "dict"
    /\ DictGet(e.out.val.response, "data", EmptyDict).t = "dict"
    /\ Truthy(LtpOf(e.out))

C14_FetchKeysAndOrder ==
    Finished("get_option_greeks")
    => /\ Len(Fetches) <= 2
       /\ (ParserRejected \/ log = <<>>) => Fetches = <<>>
       /\ (log # <<>> /\ ~ParserRejected)
          => /\ Len(log) >= 2
             /\ log[2].call = "get_quotes"
             /\ KeyOf(log[2]) = SpotKey
             /\ IF FetchPriced(log[2])
                THEN /\ Len(log) >= 3
                     /\ log[3].call = "get_quotes"
                     /\ KeyOf(log[3]) = OptionKey
                     /\ Len(Fetches) = 2
                     /\ FetchFailed(log[3])
                        => /\ ret.val.success = FALSE
                           /\ ret.val.status_code = log[3].out.val.status_code
                           /\ LogOf("calculate_greeks") = <<>>
                ELSE /\ Len(log) = 2
                     /\ (FetchFailed(log[2]) \/ NoLtp(log[2].out))
                        => /\ ret.val.success = FALSE
                           /\ LogOf("calculate_greeks") = <<>>
                     /\ FetchFailed(log[2])
                        => ret.val.status_code = log[2].out.val.status_code

\* The underlying was fetched under the symbol the caller gave and the
\* derived exchange, then the option's fetch failed with 403, which was
\* returned.
C14_Witness ==
    /\ Finished("get_option_greeks")
    /\ Truthy(args.underlying_symbol)
    /\ ~Truthy(args.underlying_exchange)
    /\ Len(Fetches) = 2
    /\ KeyOf(Fetches[1]) = [symbol |-> args.underlying_symbol.v, exchange |-> "NSE_INDEX"]
    /\ KeyOf(Fetches[2]) = OptionKey
    /\ FetchFailed(Fetches[2])
    /\ ret.val.status_code = 403
    /\ ~ret.val.success

(***************************************************************************)
(* C15: in every call of calculate_greeks, mibian.BS is constructed only   *)
(* with spot price > 0, option price > 0, strike > 0 and a time to expiry  *)
(* of at least 0.01 days; and what is returned is (True, payload with      *)
(* status success, 200) or (False, payload with status error and a         *)
(* message, 400 or 500), with success true exactly for 200, and 200 only   *)
(* after the implied volatility was solved from the option's price and the *)
(* Greeks were computed at that volatility.                                *)
(***************************************************************************)
Pricings == LogOf("mibian.BS")

\* The arguments of a construction of mibian.BS are those of this call, and
\* positive.
PositiveArguments(e) ==
    /\ e.args.spot = args.spot_price
    /\ e.args.spot.t = "num"
    /\ e.args.spot.num > 0
    /\ args.option_price.t = "num"
    /\ args.option_price.num > 0
    /\ e.args.strike = LogOf("parse_option_symbol")[1].out.val.strike
    /\ e.args.strike.num > 0
    /\ e.args.days >= SecondsPerDay \div 100
    /\ e.args.days = LogOf("calculate_time_to_expiry")[1].out

\* The implied volatility was solved from the option's price, on the side of
\* the option, and the Greeks were computed at it.
SolvedThenComputed ==
    /\ Len(Pricings) = 2
    /\ Pricings[1].given =
          IF LogOf("parse_option_symbol")[1].out.val.opt_type = <<"C", "E">>
          THEN "callPrice" ELSE "putPrice"
    /\ Pricings[1].price = args.option_price
    /\ Pricings[1].out.exc = "none"
    /\ Pricings[2].given = "volatility"
    /\ Pricings[2].volatility = Pricings[1].out.val
    /\ Pricings[2].out.exc = "none"
    /\ Pricings[2].args = Pricings[1].args

C15_PricingGuarded ==
    Finished("calculate_greeks")
    => /\ \A i \in 1..Len(Pricings) : PositiveArguments(Pricings[i])
       /\ ret.exc = "none"
       /\ ret.val.success <=> ret.val.status_code = 200
       /\ IF ret.val.success
          THEN /\ ret.val.response.status = "success"
               /\ SolvedThenComputed
          ELSE /\ ret.val.status_code \in {400, 500}
               /\ ret.val.response.status = "error"
               /\ "message" \in DOMAIN ret.val.response

\* An option expiring this very second was priced with 0.01 days and came
\* back with 200.
C15_Witness ==
    /\ Finished("calculate_greeks")
    /\ ret.val.status_code = 200
    /\ ret.val.success
    /\ SolvedThenComputed
    /\ PositiveArguments(Pricings[1])
    /\ Pricings[1].args.days = MinExpirySeconds
    /\ LogOf("calculate_time_to_expiry")[1].now
          = Timestamp(LogOf("parse_option_symbol")[1].out.val.expiry)

====
